---------------------------- MODULE Spec2Model ----------------------------
(***************************************************************************)
(* Model of the browser automation agent's tool layer (lib/agent.ts) and   *)
(* of the session and execution-log state it keeps in module globals.      *)
(*                                                                         *)
(* Every tool is an async function: it runs synchronously up to an await,  *)
(* suspends, and is resumed when the awaited promise settles.  An action   *)
(* of the model is one such synchronous run, from a resumption to the next *)
(* await (or to the return / throw).  Outcomes of awaited browser calls    *)
(* are inputs, drawn with \E.                                              *)
(***************************************************************************)
EXTENDS Naturals, Sequences, FiniteSets, TLC

(***************************************************************************)
(* Bounds of the model.                                                    *)
(***************************************************************************)
MaxInv == 2          \* tool invocations per behaviour
MaxLaunch == 2       \* calls of chromium.launch per behaviour
MaxNow == 1          \* last value of the wall clock
MaxPresent == 2      \* candidates present on a page type_in_field looks at
MaxLag == 1          \* poll intervals an awaited call can take beyond its due time
MaxRun == 4          \* consecutive newlines in a page's text
MaxCalls == 3        \* calls of POST per behaviour
MaxReq == 2          \* POST calls in flight together
MaxLog == 3          \* entries of a log the updates are applied to
MaxUpdates == 2      \* updates applied to one log

VARIABLES
    executionLog,    \* ToolLogItem[]
    browser,         \* Browser | null
    context,         \* BrowserContext | null
    page,            \* Page | null
    moduleState,     \* evaluation of the module's top-level await
    launches,        \* calls of chromium.launch so far
    inv,             \* the tool invocations: position and locals of each
    cleanupPc,       \* position of the cleanupBrowser call in flight
    closeTrace,      \* the h?.close() evaluations of the last cleanupBrowser call
    closeFailed,     \* the handles whose close it has seen reject
    cleanupThrew,    \* whether a cleanupBrowser call has rejected
    doc,             \* the document loaded in the page: url, elements, text
    now,             \* Date.now()
    request,         \* the POST calls in flight: position and response of each
    consumed         \* rateLimiter: the keys that have used their point

vars == <<executionLog, browser, context, page, moduleState, launches, inv,
          cleanupPc, closeTrace, closeFailed, cleanupThrew, doc, now, request, consumed>>

sessionVars == <<browser, context, page>>
cleanupVars == <<cleanupPc, closeTrace, closeFailed, cleanupThrew>>
requestVars == <<request, consumed>>

(***************************************************************************)
(* Values.  null is 0 for a handle; an optional field (result?, error?)    *)
(* and a nullable one (args) is a sequence of length at most one.          *)
(***************************************************************************)
Null == 0
Absent == <<>>
EmptyObject == <<>>      \* {} : the record with no fields

InvIds == 1..MaxInv

ToolNames == {"open_url", "take_screenshot", "type_in_field", "click_by_text",
              "press_enter", "scroll_page", "click_at", "get_response_data",
              "wait_for_human"}

\* new Date().toISOString(): the instant, formatted
ToISOString(t) == "T" \o ToString(t) \o "Z"

(***************************************************************************)
(* The execution log.                                                      *)
(***************************************************************************)
\* the test without "result == null"
IsPendingBroken(e, toolName) ==
    e.toolName = toolName /\ e.error = Absent

\* the test of the loops of logToolSuccess and logToolError
IsPending(e, toolName) ==
    e.toolName = toolName /\ e.result = Absent /\ e.error = Absent

LogToolStart(log, toolName, args, t) ==
    Append(log, [toolName |-> toolName, args |-> <<args>>,
                 result |-> Absent, error |-> Absent,
                 timestamp |-> ToISOString(t)])

\* for (let i = 0; i < length; i++): the first pending entry
ScanPendingBroken(log, toolName, i) ==
    LET pending == {k \in 1..i : IsPending(log[k], toolName)}
    IN  IF pending = {} THEN 0
        ELSE CHOOSE k \in pending : \A j \in pending : k <= j

\* for (let i = length - 1; i >= 0; i--): the index found, 0 when none
RECURSIVE ScanPending(_, _, _)
ScanPending(log, toolName, i) ==
    IF i = 0 THEN 0
    ELSE IF IsPending(log[i], toolName) THEN i
    ELSE ScanPending(log, toolName, i - 1)

\* logToolSuccess without its loop
LogToolSuccessBroken(log, toolName, result, t) ==
    Append(log, [toolName |-> toolName, args |-> <<>>,
                 result |-> <<result>>, error |-> Absent,
                 timestamp |-> ToISOString(t)])

\* logToolSuccess without the return in its loop
LogToolSuccessNoReturn(log, toolName, result, t) ==
    Append([k \in DOMAIN log |->
               IF IsPending(log[k], toolName)
               THEN [log[k] EXCEPT !.result = <<result>>]
               ELSE log[k]],
           [toolName |-> toolName, args |-> <<>>,
            result |-> <<result>>, error |-> Absent,
            timestamp |-> ToISOString(t)])

LogToolSuccess(log, toolName, result, t) ==
    LET i == ScanPending(log, toolName, Len(log)) IN
    IF i # 0
    THEN [log EXCEPT ![i].result = <<result>>]
    ELSE Append(log, [toolName |-> toolName, args |-> <<>>,
                      result |-> <<result>>, error |-> Absent,
                      timestamp |-> ToISOString(t)])

\* logToolError writing to the last entry of the tool, resolved or not
LogToolErrorBroken(log, toolName, error, t) ==
    LET named == {k \in DOMAIN log : log[k].toolName = toolName}
        last  == CHOOSE k \in named : \A j \in named : j <= k
    IN  IF named # {}
        THEN [log EXCEPT ![last].error = <<error>>, ![last].result = Absent]
        ELSE Append(log, [toolName |-> toolName, args |-> <<>>,
                          result |-> Absent, error |-> <<error>>,
                          timestamp |-> ToISOString(t)])

\* logToolError without its loop
LogToolErrorAppends(log, toolName, error, t) ==
    Append(log, [toolName |-> toolName, args |-> <<>>,
                 result |-> Absent, error |-> <<error>>,
                 timestamp |-> ToISOString(t)])

LogToolError(log, toolName, error, t) ==
    LET i == ScanPending(log, toolName, Len(log)) IN
    IF i # 0
    THEN [log EXCEPT ![i].error = <<error>>]
    ELSE Append(log, [toolName |-> toolName, args |-> <<>>,
                      result |-> Absent, error |-> <<error>>,
                      timestamp |-> ToISOString(t)])

Resolved(e) == e.result # Absent \/ e.error # Absent


(***************************************************************************)
(* Strings the code takes apart (trim, toLowerCase, includes) are          *)
(* sequences of one-character strings; Str gives the string itself.        *)
(***************************************************************************)
UpperCase == <<"A","B","C","D","E","F","G","H","I","J","K","L","M",
               "N","O","P","Q","R","S","T","U","V","W","X","Y","Z">>
LowerCase == <<"a","b","c","d","e","f","g","h","i","j","k","l","m",
               "n","o","p","q","r","s","t","u","v","w","x","y","z">>

RECURSIVE Str(_)
Str(s) == IF s = <<>> THEN "" ELSE Head(s) \o Str(Tail(s))

LowerOf ==
    [c \in {UpperCase[k] : k \in DOMAIN UpperCase} |->
        LowerCase[CHOOSE k \in DOMAIN UpperCase : UpperCase[k] = c]]

ToLowerChar(c) == IF c \in DOMAIN LowerOf THEN LowerOf[c] ELSE c

\* String.prototype.toLowerCase
ToLowerCase(s) == [k \in DOMAIN s |-> ToLowerChar(s[k])]

IsSpace(c) == c \in {" ", "\n", "\t"}

RECURSIVE TrimStart(_)
TrimStart(s) ==
    IF s # <<>> /\ IsSpace(Head(s)) THEN TrimStart(Tail(s)) ELSE s

RECURSIVE TrimEnd(_)
TrimEnd(s) ==
    IF s # <<>> /\ IsSpace(s[Len(s)])
    THEN TrimEnd(SubSeq(s, 1, Len(s) - 1)) ELSE s

\* String.prototype.trim
Trim(s) == TrimEnd(TrimStart(s))

\* String.prototype.includes
Includes(s, sub) ==
    \E k \in 0..Len(s) :
        k + Len(sub) <= Len(s) /\ SubSeq(s, k + 1, k + Len(sub)) = sub

(***************************************************************************)
(* Errors.  A rejected browser call carries an Error whose message may be  *)
(* empty; err?.message || fallback picks the tool's own message then.      *)
(***************************************************************************)
Error(m) == [message |-> m]

DriverErrors == {Error(""), Error("browser driver error")}

DefaultMessage(toolName) ==
    CASE toolName = "open_url"          -> "Failed to open URL"
      [] toolName = "take_screenshot"   -> "Screenshot failed"
      [] toolName = "type_in_field"     -> "Typing failed"
      [] toolName = "click_by_text"     -> "Click failed"
      [] toolName = "press_enter"       -> "Press Enter failed"
      [] toolName = "scroll_page"       -> "Scroll failed"
      [] toolName = "click_at"          -> "Coordinate click failed"
      [] toolName = "get_response_data" -> "Get response data failed"
      [] toolName = "wait_for_human"    -> "Wait for human failed"

\* const message = err?.message
MessageOfBroken(err, toolName) == err.message

\* const message = err?.message || "<the tool's message>"
MessageOf(err, toolName) ==
    IF err.message # "" THEN err.message ELSE DefaultMessage(toolName)

(***************************************************************************)
(* safeScreenshot: the file written and the reference returned.            *)
(***************************************************************************)
ScreenshotFile(tag, t) == "screenshot_" \o tag \o "_" \o ToString(t) \o ".png"

ScreenshotRef(tag, t) == "/api/screenshot/" \o ScreenshotFile(tag, t)

(***************************************************************************)
(* What a tool body did and how it ended.                                  *)
(*   fills, clicks : the elements filled / clicked (the locator's query)   *)
(*   shots         : the references of the screenshots captured            *)
(*   doc           : the document in the page afterwards                   *)
(* The inputs of a body, in, are the outcomes of its browser calls:        *)
(*   in.faults : the calls that reject        in.err : what they reject with*)
(*   in.calls  : the count() calls that resolve before one rejects: none,  *)
(*               the first alone, or all of them                           *)
(*   in.nav    : the document a navigating call leads to                   *)
(***************************************************************************)
Returns(result, d, fills, clicks, shots) ==
    [ok |-> TRUE, result |-> result, err |-> Error(""), doc |-> d,
     fills |-> fills, clicks |-> clicks, shots |-> shots]

Throws(err, d, fills, clicks, shots) ==
    [ok |-> FALSE, result |-> EmptyObject, err |-> err, doc |-> d,
     fills |-> fills, clicks |-> clicks, shots |-> shots]

\* The document of a fresh page
Blank == [url |-> "about:blank", title |-> "", dom |-> {}, text |-> <<>>]

(***************************************************************************)
(* for (const selector of list) { if (await loc.count()) ... }             *)
(* The first selector from index k on that the document matches.           *)
(***************************************************************************)
\* the loop without its return: the last selector that matches
RECURSIVE FirstMatchBroken(_, _, _, _)
FirstMatchBroken(list, k, dom, calls) ==
    IF k > Len(list) THEN [kind |-> "none", at |-> 0, calls |-> calls]
    ELSE IF calls = 0 THEN [kind |-> "threw", at |-> k, calls |-> 0]
    ELSE LET rest == FirstMatchBroken(list, k + 1, dom, calls - 1) IN
         IF rest.kind # "none" \/ list[k] \notin dom THEN rest
         ELSE [kind |-> "match", at |-> k, calls |-> calls - 1]

RECURSIVE FirstMatch(_, _, _, _)
FirstMatch(list, k, dom, calls) ==
    IF k > Len(list) THEN [kind |-> "none", at |-> 0, calls |-> calls]
    ELSE IF calls = 0 THEN [kind |-> "threw", at |-> k, calls |-> 0]
    ELSE IF list[k] \in dom THEN [kind |-> "match", at |-> k, calls |-> calls - 1]
    ELSE FirstMatch(list, k + 1, dom, calls - 1)

(***************************************************************************)
(* type_in_field                                                           *)
(***************************************************************************)
ByLabel(f) == "getByLabel(" \o f \o ")"

Selectors(f) ==
    << "input[placeholder*=\"" \o f \o "\"]",
       "textarea[placeholder*=\"" \o f \o "\"]",
       "input[aria-label*=\"" \o f \o "\"]",
       "textarea[aria-label*=\"" \o f \o "\"]",
       "input[name*=\"" \o f \o "\" i]",
       "textarea[name*=\"" \o f \o "\" i]",
       "input[id*=\"" \o f \o "\" i]",
       "textarea[id*=\"" \o f \o "\" i]" >>

LabelPatterns(f) ==
    << "label:has-text(\"" \o f \o "\") input",
       "label:has-text(\"" \o f \o "\") textarea",
       "label:has-text(\"" \o f \o "\") >> xpath=following::input[1]",
       "label:has-text(\"" \o f \o "\") >> xpath=following::textarea[1]" >>

AllSelectors(f) == Selectors(f) \o LabelPatterns(f)

EmailFallbacks == << "input[type=\"email\"]", "input[name=\"email\"]" >>
PasswordFallbacks == << "input[type=\"password\"]", "input[name=\"password\"]" >>
NameFallbacks == << "input[name=\"name\"]", "input[name*=\"name\" i]" >>

SmartFallbacks(lower) ==
    (IF Includes(lower, <<"e","m","a","i","l">>) THEN EmailFallbacks ELSE <<>>)
    \o (IF Includes(lower, <<"p","a","s","s","w","o","r","d">>)
        THEN PasswordFallbacks ELSE <<>>)
    \o (IF Includes(lower, <<"n","a","m","e">>) THEN NameFallbacks ELSE <<>>)

\* the message with the trimmed field instead of the one asked for
InputFieldNotFoundBroken(field) ==
    Error("Input field not found: " \o Str(Trim(field)))

\* new Error(`Input field not found: ${field}`)
InputFieldNotFound(field) == Error("Input field not found: " \o Str(field))

\* scrollIntoViewIfNeeded and click swallow their failure; fill and the
\* screenshot do not
\* the focus click awaited without .catch
FillAndReportStrict(selector, used, text, d, in, t) ==
    LET shot == ScreenshotRef("type", t)
    IN  IF "click" \in in.faults \/ "fill" \in in.faults
        THEN Throws(in.err, d, <<>>, <<>>, <<>>)
        ELSE IF "screenshot" \in in.faults
        THEN Throws(in.err, d, <<selector>>, <<selector>>, <<>>)
        ELSE Returns([success |-> TRUE, selectorUsed |-> used, screenshot |-> shot],
                     d, <<selector>>, <<selector>>, <<shot>>)

FillAndReport(selector, used, text, d, in, t) ==
    LET focus == IF "click" \in in.faults THEN <<>> ELSE <<selector>>
        shot  == ScreenshotRef("type", t)
    IN  IF "fill" \in in.faults
        THEN Throws(in.err, d, <<>>, focus, <<>>)
        ELSE IF "screenshot" \in in.faults
        THEN Throws(in.err, d, <<selector>>, focus, <<>>)
        ELSE Returns([success |-> TRUE, selectorUsed |-> used, screenshot |-> shot],
                     d, <<selector>>, focus, <<shot>>)

TypeInField(args, d, in, t) ==
    LET trimmed == Trim(args.field)
        f      == Str(trimmed)
        all    == AllSelectors(f)
        label  == FirstMatch(<<ByLabel(f)>>, 1, d.dom, in.calls)
        common == FirstMatch(all, 1, d.dom, label.calls)
        smarts == SmartFallbacks(ToLowerCase(trimmed))
        smart  == FirstMatch(smarts, 1, d.dom, common.calls)
    IN  IF label.kind = "threw" THEN Throws(in.err, d, <<>>, <<>>, <<>>)
        ELSE IF label.kind = "match"
        THEN FillAndReport(ByLabel(f), ByLabel(f), args.text, d, in, t)
        ELSE IF common.kind = "threw" THEN Throws(in.err, d, <<>>, <<>>, <<>>)
        ELSE IF common.kind = "match"
        THEN FillAndReport(all[common.at], all[common.at], args.text, d, in, t)
        ELSE IF smart.kind = "threw" THEN Throws(in.err, d, <<>>, <<>>, <<>>)
        ELSE IF smart.kind = "match"
        THEN FillAndReport(smarts[smart.at], "smart:" \o smarts[smart.at],
                           args.text, d, in, t)
        ELSE Throws(InputFieldNotFound(args.field), d, <<>>, <<>>, <<>>)

(***************************************************************************)
(* click_by_text                                                           *)
(***************************************************************************)
\* the candidates with the link before the button
ClickCandidatesBroken(text, lower) ==
    << "a:has-text(\"" \o text \o "\")",
       "button:has-text(\"" \o text \o "\")",
       "[role=\"button\"]:has-text(\"" \o text \o "\")",
       "[role=\"menuitem\"]:has-text(\"" \o text \o "\")",
       "text=" \o lower >>

ClickCandidates(text, lower) ==
    << "button:has-text(\"" \o text \o "\")",
       "a:has-text(\"" \o text \o "\")",
       "[role=\"button\"]:has-text(\"" \o text \o "\")",
       "[role=\"menuitem\"]:has-text(\"" \o text \o "\")",
       "text=" \o lower >>

\* the message without the text
ClickableTextNotFoundBroken(text) == Error("Could not find clickable text")

\* new Error(`Could not find clickable text: "${text}"`)
ClickableTextNotFound(text) ==
    Error("Could not find clickable text: \"" \o Str(text) \o "\"")

\* the click awaited with .catch(() => {}), as the focus click of
\* type_in_field is
ClickByTextSwallows(args, d, in, t) ==
    LET text     == Str(args.text)
        list     == ClickCandidates(text, Str(ToLowerCase(args.text)))
        found    == FirstMatch(list, 1, d.dom, in.calls)
        selector == list[found.at]
        shot     == ScreenshotRef("click", t)
        clicks   == IF "click" \in in.faults THEN <<>> ELSE <<selector>>
    IN  IF found.kind = "threw" THEN Throws(in.err, d, <<>>, <<>>, <<>>)
        ELSE IF found.kind = "none"
        THEN Throws(ClickableTextNotFound(args.text), d, <<>>, <<>>, <<>>)
        ELSE IF "screenshot" \in in.faults
        THEN Throws(in.err, in.nav, <<>>, clicks, <<>>)
        ELSE Returns([success |-> TRUE, selectorUsed |-> selector,
                      clicked |-> text, url |-> in.nav.url,
                      screenshot |-> shot],
                     in.nav, <<>>, clicks, <<shot>>)

ClickByText(args, d, in, t) ==
    LET text     == Str(args.text)
        list     == ClickCandidates(text, Str(ToLowerCase(args.text)))
        found    == FirstMatch(list, 1, d.dom, in.calls)
        selector == list[found.at]
        shot     == ScreenshotRef("click", t)
    IN  IF found.kind = "threw" THEN Throws(in.err, d, <<>>, <<>>, <<>>)
        ELSE IF found.kind = "none"
        THEN Throws(ClickableTextNotFound(args.text), d, <<>>, <<>>, <<>>)
        ELSE IF "click" \in in.faults THEN Throws(in.err, d, <<>>, <<>>, <<>>)
        ELSE IF "screenshot" \in in.faults
        THEN Throws(in.err, in.nav, <<>>, <<selector>>, <<>>)
        ELSE Returns([success |-> TRUE, selectorUsed |-> selector,
                      clicked |-> text, url |-> in.nav.url,
                      screenshot |-> shot],
                     in.nav, <<>>, <<selector>>, <<shot>>)

(***************************************************************************)
(* The tools that resolve nothing.                                         *)
(***************************************************************************)
OpenURL(args, d, in, t) ==
    LET shot == ScreenshotRef("open_url", t) IN
    IF "goto" \in in.faults THEN Throws(in.err, d, <<>>, <<>>, <<>>)
    ELSE IF "screenshot" \in in.faults THEN Throws(in.err, in.nav, <<>>, <<>>, <<>>)
    ELSE Returns([success |-> TRUE, currentUrl |-> in.nav.url, screenshot |-> shot],
                 in.nav, <<>>, <<>>, <<shot>>)

TakeScreenshot(args, d, in, t) ==
    LET shot == ScreenshotRef("manual", t) IN
    IF "screenshot" \in in.faults THEN Throws(in.err, d, <<>>, <<>>, <<>>)
    ELSE Returns([success |-> TRUE, screenshot |-> shot, url |-> d.url],
                 d, <<>>, <<>>, <<shot>>)

PressEnter(args, d, in, t) ==
    LET shot == ScreenshotRef("enter", t) IN
    IF "press" \in in.faults THEN Throws(in.err, d, <<>>, <<>>, <<>>)
    ELSE IF "screenshot" \in in.faults THEN Throws(in.err, in.nav, <<>>, <<>>, <<>>)
    ELSE Returns([success |-> TRUE, from |-> d.url, to |-> in.nav.url,
                  screenshot |-> shot],
                 in.nav, <<>>, <<>>, <<shot>>)

ScrollPage(args, d, in, t) ==
    LET shot == ScreenshotRef("scroll", t) IN
    IF "wheel" \in in.faults THEN Throws(in.err, d, <<>>, <<>>, <<>>)
    ELSE IF "screenshot" \in in.faults THEN Throws(in.err, d, <<>>, <<>>, <<>>)
    ELSE Returns([success |-> TRUE, scrolledBy |-> args.y, screenshot |-> shot],
                 d, <<>>, <<>>, <<shot>>)

ClickAt(args, d, in, t) ==
    LET shot == ScreenshotRef("click_at", t) IN
    IF "mouse" \in in.faults THEN Throws(in.err, d, <<>>, <<>>, <<>>)
    ELSE IF "screenshot" \in in.faults THEN Throws(in.err, in.nav, <<>>, <<>>, <<>>)
    ELSE Returns([success |-> TRUE, x |-> args.x, y |-> args.y,
                  url |-> in.nav.url, screenshot |-> shot],
                 in.nav, <<>>, <<>>, <<shot>>)

\* t.replace(/\n{3,}/g, "\n\n") keeps of every run of newlines its first
\* two: the k-th character stays unless it and the two before it are newlines
KeptByReplace(s, k) ==
    ~(k > 2 /\ s[k] = "\n" /\ s[k - 1] = "\n" /\ s[k - 2] = "\n")

\* The characters of s[lo..hi] that stay, by halves
RECURSIVE CollapseBetween(_, _, _)
CollapseBetween(s, lo, hi) ==
    IF lo > hi THEN <<>>
    ELSE IF lo = hi THEN (IF KeptByReplace(s, lo) THEN <<s[lo]>> ELSE <<>>)
    ELSE LET mid == (lo + hi) \div 2 IN
         CollapseBetween(s, lo, mid) \o CollapseBetween(s, mid + 1, hi)

CollapseNewlines(s) == CollapseBetween(s, 1, Len(s))

PreviewLimit == 2000

\* String.prototype.slice(0, n)
SliceTo(s, n) == IF Len(s) <= n THEN s ELSE SubSeq(s, 1, n)

\* the preview without the replace
PreviewTextBroken(text) == SliceTo(Trim(text), PreviewLimit)

PreviewText(text) == SliceTo(Trim(CollapseNewlines(text)), PreviewLimit)

GetResponseData(args, d, in, t) ==
    IF "title" \in in.faults \/ "evaluate" \in in.faults
    THEN Throws(in.err, d, <<>>, <<>>, <<>>)
    ELSE Returns([success |-> TRUE, title |-> d.title, url |-> d.url,
                  visibleText |-> PreviewText(d.text)],
                 d, <<>>, <<>>, <<>>)

\* The poll loop by its outcome: the challenge outlasts the budget, or it
\* clears and the confirming screenshot is taken.
WaitForHuman(args, d, in, t) ==
    LET shot == ScreenshotRef("human_done", t) IN
    IF "challenge" \in in.faults
    THEN Throws(Error("Captcha wait timed out after 2 minutes"), d, <<>>, <<>>, <<>>)
    ELSE IF "screenshot" \in in.faults THEN Throws(in.err, d, <<>>, <<>>, <<>>)
    ELSE Returns([success |-> TRUE, url |-> d.url, screenshot |-> shot],
                 d, <<>>, <<>>, <<shot>>)

\* What follows "if (!page) throw ..." in the execute of each tool
ToolBody(toolName, args, d, in, t) ==
    CASE toolName = "open_url"          -> OpenURL(args, d, in, t)
      [] toolName = "take_screenshot"   -> TakeScreenshot(args, d, in, t)
      [] toolName = "type_in_field"     -> TypeInField(args, d, in, t)
      [] toolName = "click_by_text"     -> ClickByText(args, d, in, t)
      [] toolName = "press_enter"       -> PressEnter(args, d, in, t)
      [] toolName = "scroll_page"       -> ScrollPage(args, d, in, t)
      [] toolName = "click_at"          -> ClickAt(args, d, in, t)
      [] toolName = "get_response_data" -> GetResponseData(args, d, in, t)
      [] toolName = "wait_for_human"    -> WaitForHuman(args, d, in, t)

\* The browser calls of a tool body that can reject (count() apart)
FaultOps(toolName) ==
    CASE toolName = "open_url"          -> {"goto", "wait", "screenshot"}
      [] toolName = "take_screenshot"   -> {"screenshot"}
      [] toolName = "type_in_field"     -> {"scroll", "click", "fill", "screenshot"}
      [] toolName = "click_by_text"     -> {"scroll", "click", "wait", "screenshot"}
      [] toolName = "press_enter"       -> {"press", "wait", "screenshot"}
      [] toolName = "scroll_page"       -> {"wheel", "wait", "screenshot"}
      [] toolName = "click_at"          -> {"mouse", "wait", "screenshot"}
      [] toolName = "get_response_data" -> {"title", "evaluate"}
      [] toolName = "wait_for_human"    -> {"challenge", "screenshot"}

\* The count() calls a body can make
CountCalls(toolName) ==
    CASE toolName = "type_in_field" ->
           1 + Len(AllSelectors("")) + Len(EmailFallbacks)
             + Len(PasswordFallbacks) + Len(NameFallbacks)
      [] toolName = "click_by_text" -> Len(ClickCandidates("", ""))
      [] OTHER -> 0

\* Whether the tool's primary action can load another document
Navigates(toolName) ==
    toolName \in {"open_url", "click_by_text", "press_enter", "click_at"}

(***************************************************************************)
(* The inputs the model draws: arguments the orchestrator passes and        *)
(* documents the browser loads.                                            *)
(***************************************************************************)
Email == <<"E","m","a","i","l">>
PaddedName == <<" ","n","a","m","e"," ">>
Zip == <<"Z","i","p">>
EmailPasswordName ==
    <<"e","m","a","i","l"," ","p","a","s","s","w","o","r","d"," ","n","a","m","e">>

Fields == {Email, PaddedName, Zip, EmailPasswordName}

SignUp == <<"S","i","g","n"," ","U","p">>
PaddedOk == <<" ","O","K">>

Texts == {SignUp, PaddedOk}

ArgsOf(toolName) ==
    CASE toolName = "open_url"      -> {[url |-> "https://example.com"]}
      [] toolName = "type_in_field" -> {[field |-> Email, text |-> "a@b.com"]}
      [] toolName = "click_by_text" -> {[text |-> SignUp]}
      [] toolName = "scroll_page"   -> {[y |-> 300]}
      [] toolName = "click_at"      -> {[x |-> 10, y |-> 20]}
      [] OTHER                      -> {EmptyObject}

Example ==
    [url |-> "https://example.com/", title |-> "Example Domain",
     dom |-> {"input[type=\"email\"]", "text=sign up"},
     text |-> <<"H","i","\n","\n","\n","\n","!"," ">>]

Documents == {Example}

\* The outcomes of the browser calls of one tool body: every combination
AllInputs(toolName, args, d) ==
    [faults : SUBSET FaultOps(toolName),
     err    : DriverErrors,
     calls  : {0, 1, CountCalls(toolName)},
     nav    : IF Navigates(toolName) THEN Documents \cup {d} ELSE {d}]

\* ... and the two plain ones: every call resolves, or every call that can
\* reject does (count() apart)
PlainInputs(toolName, args, d) ==
    [faults : {{}, FaultOps(toolName)},
     err    : DriverErrors,
     calls  : {CountCalls(toolName)},
     nav    : IF toolName = "open_url" THEN Documents ELSE {d}]

BodyInputs(toolName, args, d, every) ==
    IF every THEN AllInputs(toolName, args, d) ELSE PlainInputs(toolName, args, d)

(***************************************************************************)
(* State.  Of an invocation: pc, its position; tool and args; h, the        *)
(* launch it awaits; and, to state properties, idx, the index its          *)
(* logToolStart pushed at; fresh, no resetExecutionLog since it started;   *)
(* kept, no cleanupBrowser ended since it started; used, the page its body *)
(* ran on; out, how the body ended; seen, the elements of the document the *)
(* body looked at; faults, the browser calls that were to reject in it.    *)
(* Of wait_for_human: start, url, hasCaptcha and          *)
(* hasVerifyText, its locals; polls, the iterations of its loop begun; and *)
(* sleeps, the waitForTimeout calls made.                                  *)
(***************************************************************************)
NoInvocation ==
    [pc |-> "idle", tool |-> "", args |-> EmptyObject, h |-> Null,
     idx |-> 0, fresh |-> FALSE, kept |-> FALSE, used |-> Null, out |-> <<>>,
     seen |-> {}, start |-> 0, url |-> <<>>, hasCaptcha |-> FALSE,
     hasVerifyText |-> FALSE, polls |-> 0, sleeps |-> 0, faults |-> {}]

\* Of a request: pc, the position of POST; ip, what getClientIp gave; body,
\* what req.json() gave; status, of the response returned; payload, the
\* line written to the stream; and, to state properties, calls, the POST
\* calls handled in its place so far, and resets, runs, reads and cleanups,
\* the calls of resetExecutionLog, run, getExecutionLog and cleanupBrowser
\* this one has made, and left, the entries its resetExecutionLog found in
\* the log.
ReqIds == 1..MaxReq

NoRequest ==
    [pc |-> "none", ip |-> "", body |-> <<>>, status |-> 0, payload |-> <<>>,
     calls |-> 0, resets |-> 0, runs |-> 0, reads |-> 0, cleanups |-> 0,
     left |-> 0]

InFlight(i) == inv[i].pc \notin {"idle", "returned", "threw"}
Started(i) == inv[i].pc # "idle"
Finished(i) == inv[i].pc \in {"returned", "threw"}
Quiet == \A i \in InvIds : ~InFlight(i)

Init ==
    /\ executionLog = <<>>
    /\ browser = Null /\ context = Null /\ page = Null
    /\ moduleState = "evaluating"
    /\ launches = 0
    /\ inv = [i \in InvIds |-> NoInvocation]
    /\ cleanupPc = "idle"
    /\ closeTrace = <<>>
    /\ closeFailed = {}
    /\ cleanupThrew = FALSE
    /\ doc = Blank
    /\ now = 0
    /\ request = [r \in ReqIds |-> NoRequest]
    /\ consumed = {}

(***************************************************************************)
(* initializeBrowser.                                                      *)
(***************************************************************************)
\* initializeBrowser without its guard
NeedsLaunchBroken(b) == TRUE

\* if (!browser)
NeedsLaunch(b) == b = Null

\* The module's top-level "await initializeBrowser()": the call
ModuleEvaluate ==
    /\ moduleState = "evaluating"
    /\ IF NeedsLaunch(browser)
       THEN /\ launches < MaxLaunch
            /\ launches' = launches + 1
            /\ moduleState' = "launch"
       ELSE /\ moduleState' = "loaded"
            /\ UNCHANGED launches
    /\ UNCHANGED <<requestVars, executionLog, sessionVars, inv, cleanupVars, doc, now>>

\* browser = await chromium.launch(...), then browser.newContext(...) is called
ModuleLaunchSettled ==
    /\ moduleState = "launch"
    /\ \E ok \in BOOLEAN :
         IF ok THEN /\ browser' = launches
                    /\ moduleState' = "newContext"
               ELSE /\ moduleState' = "failed"
                    /\ UNCHANGED browser
    /\ UNCHANGED <<requestVars, executionLog, context, page, launches, inv, cleanupVars,
                   doc, now>>

\* context = await browser.newContext(...), then context.newPage() is called
ModuleNewContextSettled ==
    /\ moduleState = "newContext"
    /\ \E ok \in BOOLEAN :
         IF ok THEN /\ context' = browser
                    /\ moduleState' = "newPage"
               ELSE /\ moduleState' = "failed"
                    /\ UNCHANGED context
    /\ UNCHANGED <<requestVars, executionLog, browser, page, launches, inv, cleanupVars,
                   doc, now>>

\* page = await context.newPage(); the module is loaded
ModuleNewPageSettled ==
    /\ moduleState = "newPage"
    /\ \E ok \in BOOLEAN :
         IF ok THEN /\ page' = context
                    /\ doc' = Blank
                    /\ moduleState' = "loaded"
               ELSE /\ moduleState' = "failed"
                    /\ UNCHANGED <<page, doc>>
    /\ UNCHANGED <<requestVars, executionLog, browser, context, launches, inv, cleanupVars, now>>

(***************************************************************************)
(* A tool invocation: execute() of any of the nine tools.                  *)
(***************************************************************************)
\* The catch block: logToolError(toolName, message); throw err
Catch(i, err) ==
    /\ executionLog' = LogToolError(executionLog, inv[i].tool,
                                    MessageOf(err, inv[i].tool), now)
    /\ inv' = [inv EXCEPT ![i].pc = "threw",
                          ![i].out = <<Throws(err, doc, <<>>, <<>>, <<>>)>>]

\* execute() up to its first await: logToolStart, then ensureReady's mkdir
Invoke(i, toolName, args) ==
    /\ moduleState = "loaded"
    /\ inv[i].pc = "idle"
    /\ \A j \in InvIds : j < i => Started(j)
    /\ executionLog' = LogToolStart(executionLog, toolName, args, now)
    /\ inv' = [inv EXCEPT ![i] = [NoInvocation EXCEPT
                  !.pc = "mkdir", !.tool = toolName, !.args = args,
                  !.idx = Len(executionLog) + 1, !.fresh = TRUE, !.kept = TRUE]]
    /\ UNCHANGED <<requestVars, sessionVars, moduleState, launches, cleanupVars,
                   doc, now>>

\* await fs.mkdir(...) settles; initializeBrowser() is called
MkdirSettled(i) ==
    /\ inv[i].pc = "mkdir"
    /\ \/ /\ NeedsLaunch(browser)
          /\ launches < MaxLaunch
          /\ launches' = launches + 1
          /\ inv' = [inv EXCEPT ![i].pc = "launch", ![i].h = launches + 1]
          /\ UNCHANGED executionLog
       \/ /\ ~NeedsLaunch(browser)
          /\ inv' = [inv EXCEPT ![i].pc = "ready"]
          /\ UNCHANGED <<executionLog, launches>>
       \/ /\ \E err \in DriverErrors : Catch(i, err)
          /\ UNCHANGED launches
    /\ UNCHANGED <<requestVars, sessionVars, moduleState, cleanupVars, doc, now>>

\* browser = await chromium.launch(...), then browser.newContext(...) is called
LaunchSettled(i) ==
    /\ inv[i].pc = "launch"
    /\ \/ /\ browser' = inv[i].h
          /\ inv' = [inv EXCEPT ![i].pc = "newContext"]
          /\ UNCHANGED executionLog
       \/ /\ \E err \in DriverErrors : Catch(i, err)
          /\ UNCHANGED browser
    /\ UNCHANGED <<requestVars, context, page, moduleState, launches, cleanupVars,
                   doc, now>>

\* context = await browser.newContext(...), then context.newPage() is called
NewContextSettled(i) ==
    /\ inv[i].pc = "newContext"
    /\ \/ /\ context' = inv[i].h
          /\ inv' = [inv EXCEPT ![i].pc = "newPage"]
          /\ UNCHANGED executionLog
       \/ /\ \E err \in DriverErrors : Catch(i, err)
          /\ UNCHANGED context
    /\ UNCHANGED <<requestVars, browser, page, moduleState, launches, cleanupVars,
                   doc, now>>

\* page = await context.newPage(); initializeBrowser returns
NewPageSettled(i) ==
    /\ inv[i].pc = "newPage"
    /\ \/ /\ page' = inv[i].h
          /\ doc' = Blank
          /\ inv' = [inv EXCEPT ![i].pc = "ready"]
          /\ UNCHANGED executionLog
       \/ /\ \E err \in DriverErrors : Catch(i, err)
          /\ UNCHANGED <<page, doc>>
    /\ UNCHANGED <<requestVars, browser, context, moduleState, launches, cleanupVars, now>>

\* "await ensureReady()" settles: if (!page) throw ..., then the body up to
\* its first await, a call on the page
GuardPage(i) ==
    /\ inv[i].pc = "ready"
    /\ IF page = Null
       THEN Catch(i, Error("Page not initialized"))
       ELSE /\ inv' = [inv EXCEPT ![i].pc = "body", ![i].used = page,
                                  ![i].start = now]
            /\ UNCHANGED executionLog
    /\ UNCHANGED <<requestVars, sessionVars, moduleState, launches, cleanupVars, doc, now>>

\* page.<method>(...) once cleanupBrowser has set page to null
NullPageError == Error("Cannot read properties of null")

\* The rest of the body, by the outcomes of its browser calls (they touch
\* neither the log nor the handles), and the logToolSuccess / catch that
\* ends it.  Every body reads the global page again after its first await.
\* traced: whether the invocation keeps the set of calls that were to reject.
\* The calls that were to reject in a body: in.faults, and "count" when a
\* count() call was
Rejecting(toolName, in) ==
    in.faults \cup (IF in.calls < CountCalls(toolName) THEN {"count"} ELSE {})

Body(i, every, traced) ==
    /\ inv[i].pc = "body"
    /\ IF page = Null
       THEN /\ Catch(i, NullPageError)
            /\ UNCHANGED doc
       ELSE \E in \in BodyInputs(inv[i].tool, inv[i].args, doc, every) :
              LET out == ToolBody(inv[i].tool, inv[i].args, doc, in, now) IN
              /\ doc' = out.doc
              /\ IF out.ok
                 THEN /\ executionLog' = LogToolSuccess(executionLog, inv[i].tool,
                                                        out.result, now)
                      /\ inv' = [inv EXCEPT ![i].pc = "returned",
                                            ![i].out = <<out>>,
                                            ![i].seen = doc.dom,
                                            ![i].faults = IF traced
                                                          THEN Rejecting(inv[i].tool, in)
                                                          ELSE {}]
                 ELSE /\ executionLog' = LogToolError(executionLog, inv[i].tool,
                                            MessageOf(out.err, inv[i].tool), now)
                      /\ inv' = [inv EXCEPT ![i].pc = "threw",
                                            ![i].out = <<out>>,
                                            ![i].seen = doc.dom,
                                            ![i].faults = IF traced
                                                          THEN Rejecting(inv[i].tool, in)
                                                          ELSE {}]
    /\ UNCHANGED <<requestVars, sessionVars, moduleState, launches, cleanupVars, now>>

RunBody(i, every) == Body(i, every, FALSE)

(***************************************************************************)
(* cleanupBrowser.                                                         *)
(***************************************************************************)
\* close() awaited without .catch
SwallowedBroken(ok) == ok

\* .catch(() => {}) : the awaited promise resolves whatever close() did
Swallowed(ok) == TRUE

\* the finally block without "browser = null"
FinallyBroken(threw) ==
    /\ page' = Null /\ context' = Null /\ browser' = browser
    /\ cleanupPc' = "idle"
    /\ closeTrace' = closeTrace
    /\ closeFailed' = {}
    /\ cleanupThrew' = (cleanupThrew \/ threw)
    /\ inv' = [i \in InvIds |-> [inv[i] EXCEPT !.kept = FALSE]]

\* finally { page = null; context = null; browser = null }
Finally(threw) ==
    /\ page' = Null /\ context' = Null /\ browser' = Null
    /\ cleanupPc' = "idle"
    /\ closeTrace' = closeTrace
    /\ closeFailed' = {}
    /\ cleanupThrew' = (cleanupThrew \/ threw)
    /\ inv' = [i \in InvIds |-> [inv[i] EXCEPT !.kept = FALSE]]

\* cleanupBrowser() up to its first await: page?.close()
CleanupCall ==
    /\ moduleState = "loaded"
    /\ cleanupPc = "idle"
    /\ cleanupPc' = "page"
    /\ closeTrace' = <<[handle |-> "page", attempted |-> page # Null]>>
    /\ closeFailed' = {}
    /\ UNCHANGED <<executionLog, sessionVars, moduleState, launches, inv,
                   cleanupThrew, doc, now>>

\* await page?.close().catch(...) settles; context?.close() is called
ClosePageSettled ==
    /\ cleanupPc = "page"
    /\ \E ok \in BOOLEAN :
         /\ closeTrace[1].attempted \/ ok
         /\ IF Swallowed(ok)
            THEN /\ cleanupPc' = "context"
                 /\ closeTrace' = Append(closeTrace,
                        [handle |-> "context", attempted |-> context # Null])
                 /\ closeFailed' = IF ok THEN closeFailed
                                         ELSE closeFailed \cup {"page"}
                 /\ UNCHANGED <<sessionVars, cleanupThrew, inv>>
            ELSE Finally(TRUE)
    /\ UNCHANGED <<requestVars, executionLog, moduleState, launches, doc, now>>

\* await context?.close().catch(...) settles; browser?.close() is called
CloseContextSettled ==
    /\ cleanupPc = "context"
    /\ \E ok \in BOOLEAN :
         /\ closeTrace[2].attempted \/ ok
         /\ IF Swallowed(ok)
            THEN /\ cleanupPc' = "browser"
                 /\ closeTrace' = Append(closeTrace,
                        [handle |-> "browser", attempted |-> browser # Null])
                 /\ closeFailed' = IF ok THEN closeFailed
                                         ELSE closeFailed \cup {"context"}
                 /\ UNCHANGED <<sessionVars, cleanupThrew, inv>>
            ELSE Finally(TRUE)
    /\ UNCHANGED <<requestVars, executionLog, moduleState, launches, doc, now>>

\* await browser?.close().catch(...) settles; the finally block runs
CloseBrowserSettled ==
    /\ cleanupPc = "browser"
    /\ \E ok \in BOOLEAN :
         /\ closeTrace[3].attempted \/ ok
         /\ Finally(~Swallowed(ok))
    /\ UNCHANGED <<requestVars, executionLog, moduleState, launches, doc, now>>

(***************************************************************************)
(* wait_for_human, poll by poll.  WaitForHuman above is the loop by its    *)
(* outcome; these actions are its iterations, with the time they take.     *)
(***************************************************************************)
WaitBudget == 120000       \* const timeout = 120000
PollInterval == 1500       \* p.waitForTimeout(1500)

\* How long past its due time a waitForTimeout settles (the probes are
\* taken to settle at once: time they took would only add to the elapsed)
Lags == {k * PollInterval : k \in 0..MaxLag}

CaptchaFrames == "iframe[src*=\"recaptcha\"], iframe[title*=\"reCAPTCHA\"]"
VerifyTexts ==
    ":text-matches(\"verify you are human|checking your browser|unusual traffic|captcha\", \"i\")"

Sorry == <<"s","o","r","r","y">>

\* the budget measured from the epoch, not from start
WithinBudgetBroken(t, start) == t < WaitBudget

\* Date.now() - start < timeout
WithinBudget(t, start) == t - start < WaitBudget

\* the test without the URL
BlockedBroken(hasCaptcha, hasVerifyText, url) == hasCaptcha \/ hasVerifyText

\* hasCaptcha || hasVerifyText || url.includes("sorry")
Blocked(hasCaptcha, hasVerifyText, url) ==
    hasCaptcha \/ hasVerifyText \/ Includes(url, Sorry)

\* new Error("Captcha wait timed out after 2 minutes")
CaptchaTimedOut == Error("Captcha wait timed out after 2 minutes")

Waiting(i) == inv[i].tool = "wait_for_human"

\* the loop's exit with a last screenshot taken before the throw
TimedOutBroken(i) ==
    /\ executionLog' = LogToolError(executionLog, inv[i].tool,
                                    MessageOf(CaptchaTimedOut, inv[i].tool), now)
    /\ inv' = [inv EXCEPT ![i].pc = "threw",
                          ![i].out = <<Throws(CaptchaTimedOut, doc, <<>>, <<>>,
                                              <<ScreenshotRef("human_done", now)>>)>>]

\* The loop's exit: throw new Error(...), caught by the catch block
TimedOut(i) == Catch(i, CaptchaTimedOut)

\* The head of the loop: the budget test, then p.url() and the first probe
WaitPoll(i) ==
    /\ Waiting(i) /\ inv[i].pc = "body"
    /\ IF WithinBudget(now, inv[i].start)
       THEN /\ inv' = [inv EXCEPT ![i].pc = "captcha", ![i].url = doc.url,
                                  ![i].polls = @ + 1]
            /\ UNCHANGED executionLog
       ELSE TimedOut(i)
    /\ UNCHANGED <<requestVars, sessionVars, moduleState, launches, cleanupVars, doc, now>>

\* a rejected query taken for a challenge found
CountOrTrue(ok, found) == ~ok \/ found

\* .count().then(c => c > 0).catch(() => false): whether the locator found
\* an element, or false when the query rejects
CountOrFalse(ok, found) == ok /\ found

\* The reCAPTCHA probe settles; traced, the iteration remembers a rejection
CaptchaProbe(i, traced) ==
    /\ Waiting(i) /\ inv[i].pc = "captcha"
    /\ \E ok \in BOOLEAN :
         inv' = [inv EXCEPT ![i].pc = "verify",
                            ![i].hasCaptcha = CountOrFalse(ok, CaptchaFrames \in doc.dom),
                            ![i].faults = IF traced /\ ~ok THEN {"captcha"} ELSE {}]
    /\ UNCHANGED <<requestVars, executionLog, sessionVars, moduleState, launches, cleanupVars,
                   doc, now>>

CaptchaProbed(i) == CaptchaProbe(i, FALSE)

\* The challenge-phrase probe settles, and the iteration decides: sleep, or
\* safeScreenshot(p, "human_done")
VerifyProbe(i, traced) ==
    /\ Waiting(i) /\ inv[i].pc = "verify"
    /\ \E ok \in BOOLEAN :
         LET hasVerifyText == CountOrFalse(ok, VerifyTexts \in doc.dom)
             faults == inv[i].faults \cup (IF traced /\ ~ok THEN {"verify"} ELSE {})
         IN
         IF Blocked(inv[i].hasCaptcha, hasVerifyText, inv[i].url)
         THEN inv' = [inv EXCEPT ![i].pc = "sleep",
                                 ![i].hasVerifyText = hasVerifyText,
                                 ![i].sleeps = @ + 1,
                                 ![i].faults = faults]
         ELSE inv' = [inv EXCEPT ![i].pc = "shot",
                                 ![i].hasVerifyText = hasVerifyText,
                                 ![i].faults = faults]
    /\ UNCHANGED <<requestVars, executionLog, sessionVars, moduleState, launches, cleanupVars,
                   doc, now>>

VerifyProbed(i) == VerifyProbe(i, FALSE)

\* the sleep settling at once, on a clock that stands still
SleepSettledFrozen(i) ==
    /\ Waiting(i) /\ inv[i].pc = "sleep"
    /\ \/ /\ inv' = [inv EXCEPT ![i].pc = "body", ![i].url = <<>>,
                                ![i].hasCaptcha = FALSE,
                                ![i].hasVerifyText = FALSE,
                                ![i].faults = {}]
          /\ UNCHANGED executionLog
       \/ \E err \in DriverErrors : Catch(i, err)
    /\ UNCHANGED <<requestVars, sessionVars, moduleState, launches, cleanupVars, doc, now>>

\* await p.waitForTimeout(1500) settles; continue (the iteration's url,
\* hasCaptcha and hasVerifyText go out of scope)
SleepSettled(i) ==
    /\ Waiting(i) /\ inv[i].pc = "sleep"
    /\ \E lag \in Lags :
         /\ now' = now + PollInterval + lag
         /\ \/ /\ inv' = [inv EXCEPT ![i].pc = "body", ![i].url = <<>>,
                                     ![i].hasCaptcha = FALSE,
                                     ![i].hasVerifyText = FALSE,
                                     ![i].faults = {}]
               /\ UNCHANGED executionLog
            \/ \E err \in DriverErrors : Catch(i, err)
    /\ UNCHANGED <<requestVars, sessionVars, moduleState, launches, cleanupVars, doc>>

\* The screenshot settles: logToolSuccess and return, or the catch block
ShotSettled(i) ==
    /\ Waiting(i) /\ inv[i].pc = "shot"
    /\ \/ LET shot == ScreenshotRef("human_done", now)
              out  == Returns([success |-> TRUE, url |-> Str(doc.url),
                               screenshot |-> shot],
                              doc, <<>>, <<>>, <<shot>>)
          IN  /\ executionLog' = LogToolSuccess(executionLog, inv[i].tool,
                                                out.result, now)
              /\ inv' = [inv EXCEPT ![i].pc = "returned", ![i].out = <<out>>,
                                    ![i].seen = doc.dom]
       \/ \E err \in DriverErrors : Catch(i, err)
    /\ UNCHANGED <<requestVars, sessionVars, moduleState, launches, cleanupVars, doc, now>>

WaitStep(i) ==
    \/ WaitPoll(i)
    \/ CaptchaProbed(i)
    \/ VerifyProbed(i)
    \/ SleepSettled(i)
    \/ ShotSettled(i)

(***************************************************************************)
(* The rest of the module's interface, and the clock.                      *)
(***************************************************************************)
\* resetExecutionLog that leaves the array as it is
ResetExecutionLogBroken ==
    /\ moduleState = "loaded"
    /\ executionLog' = executionLog
    /\ inv' = [i \in InvIds |-> [inv[i] EXCEPT !.fresh = FALSE]]
    /\ UNCHANGED <<sessionVars, moduleState, launches, cleanupVars, doc, now>>

\* executionLog = []
ResetExecutionLog ==
    /\ moduleState = "loaded"
    /\ executionLog' = <<>>
    /\ inv' = [i \in InvIds |-> [inv[i] EXCEPT !.fresh = FALSE]]
    /\ UNCHANGED <<sessionVars, moduleState, launches, cleanupVars, doc, now>>

\* Date.now() advances.  ClockSpec alone lets it: nothing the other
\* specifications are asked about depends on its advancing between steps.
Tick ==
    /\ now < MaxNow
    /\ now' = now + 1
    /\ UNCHANGED <<requestVars, executionLog, sessionVars, moduleState, launches, inv,
                   cleanupVars, doc>>

ModuleLoad ==
    \/ ModuleEvaluate
    \/ ModuleLaunchSettled
    \/ ModuleNewContextSettled
    \/ ModuleNewPageSettled

Step(i, every) ==
    \/ MkdirSettled(i)
    \/ LaunchSettled(i)
    \/ NewContextSettled(i)
    \/ NewPageSettled(i)
    \/ GuardPage(i)
    \/ RunBody(i, every)

CleanupStep ==
    \/ ClosePageSettled
    \/ CloseContextSettled
    \/ CloseBrowserSettled

\* Two tool names are enough for invocations that overlap: the log tells
\* invocations apart by the tool's name alone
OverlapTools == {"open_url", "take_screenshot"}

\* Tool invocations, cleanups and resets in any interleaving
Next ==
    \/ ModuleLoad
    \/ \E i \in InvIds, toolName \in OverlapTools :
         \E args \in ArgsOf(toolName) : Invoke(i, toolName, args)
    \/ \E i \in InvIds : Step(i, FALSE)
    \/ CleanupCall /\ UNCHANGED requestVars
    \/ CleanupStep
    \/ ResetExecutionLog /\ UNCHANGED requestVars

Spec == Init /\ [][Next]_vars

\* One caller: a tool is invoked, the session cleaned up and the log reset
\* only when no tool invocation and no cleanup is in flight
SeqNext ==
    \/ ModuleLoad
    \/ /\ Quiet /\ cleanupPc = "idle"
       /\ \E i \in InvIds, toolName \in ToolNames :
            \E args \in ArgsOf(toolName) : Invoke(i, toolName, args)
    \/ \E i \in InvIds : Step(i, FALSE)
    \/ Quiet /\ CleanupCall /\ UNCHANGED requestVars
    \/ CleanupStep
    \/ Quiet /\ cleanupPc = "idle" /\ ResetExecutionLog /\ UNCHANGED requestVars

SeqSpec == Init /\ [][SeqNext]_vars

\* One invocation of any tool, with every combination of failures of its
\* browser calls, on a session that is there or was cleaned up
FaultNext ==
    \/ ModuleLoad
    \/ /\ cleanupPc = "idle"
       /\ \E toolName \in ToolNames :
            \E args \in ArgsOf(toolName) : Invoke(1, toolName, args)
    \/ MkdirSettled(1)
    \/ LaunchSettled(1)
    \/ NewContextSettled(1)
    \/ NewPageSettled(1)
    \/ GuardPage(1)
    \/ Body(1, TRUE, TRUE)
    \/ Quiet /\ CleanupCall /\ UNCHANGED requestVars
    \/ CleanupStep

FaultSpec == Init /\ [][FaultNext]_vars

(***************************************************************************)
(* Screenshots by invocations that may overlap, the clock advancing or not *)
(* between their steps.                                                    *)
(***************************************************************************)
ClockNext ==
    \/ ModuleLoad
    \/ \E i \in InvIds, toolName \in OverlapTools :
         \E args \in ArgsOf(toolName) : Invoke(i, toolName, args)
    \/ \E i \in InvIds : MkdirSettled(i)
    \/ \E i \in InvIds : GuardPage(i)
    \/ \E i \in InvIds : RunBody(i, FALSE)
    \/ Tick

ClockSpec == Init /\ [][ClockNext]_vars

(***************************************************************************)
(* POST of app/api/automate/route.ts: one request at a time, the next one  *)
(* arriving when the stream of the one before has ended.                   *)
(***************************************************************************)
\* What req.json() gives: json, whether the body parses; type and task,
\* typeof body?.task and its value
Bodies ==
    {[json |-> FALSE, type |-> "undefined", task |-> ""],
     [json |-> TRUE,  type |-> "undefined", task |-> ""],
     [json |-> TRUE,  type |-> "number",    task |-> "5"],
     [json |-> TRUE,  type |-> "string",    task |-> ""],
     [json |-> TRUE,  type |-> "string",    task |-> "open example.com"]}

\* !(!task || typeof task !== "string")
TaskGiven(body) ==
    /\ ~(body.type = "undefined" \/ (body.type = "string" /\ body.task = ""))
    /\ body.type = "string"

\* x.result?.screenshot
HasScreenshot(x) ==
    /\ x.result # Absent
    /\ "screenshot" \in DOMAIN x.result[1]
    /\ x.result[1].screenshot # ""

\* executionLog.filter((x) => x.toolName === "take_screenshot" &&
\*     x.result?.screenshot).map((x) => x.result.screenshot)
Screenshots(log) ==
    LET Taken(x) == x.toolName = "take_screenshot" /\ HasScreenshot(x)
        kept == SelectSeq(log, Taken)
    IN  [k \in DOMAIN kept |-> kept[k].result[1].screenshot]

\* The line the try block writes, and the one the catch block writes
ResultPayload(body, log) ==
    [task |-> body.task, finalOutput |-> "Task completed",
     executionLog |-> log, screenshots |-> Screenshots(log)]

ErrorPayload(body, log) ==
    [task |-> body.task, error |-> "Unknown error", executionLog |-> log]

\* How writing the response goes: the try block writes its line; or it
\* throws (run rejected, or stringify or enqueue threw) and the catch block
\* writes its line; or the catch block's enqueue throws too
Sends == {"result", "error", "none"}

\* cleanupBrowser called as the last statement of the try block
InFinallyBroken(completed) == completed

\* finally { await cleanupBrowser()... }: whether the try block completed
\* or threw
InFinally(completed) == TRUE

\* What getClientIp gives: the first x-forwarded-for address, x-real-ip,
\* or "anonymous"
Ips == {"203.0.113.7", "anonymous"}

\* The stream of the request has ended, or the request was rejected
Responded(r) ==
    \/ request[r].pc \in {"none", "rejected"}
    \/ request[r].pc = "finally" /\ cleanupPc = "idle"

\* POST is called: getClientIp, rateLimiter.consume(ip, 1)
PostCall(r) ==
    /\ moduleState = "loaded"
    /\ Responded(r)
    /\ request[r].calls < MaxCalls
    /\ \E ip \in Ips :
         request' = [request EXCEPT ![r] =
                        [NoRequest EXCEPT !.pc = "limit", !.ip = ip,
                                          !.calls = request[r].calls + 1]]
    /\ inv' = IF \A q \in ReqIds : Responded(q)
              THEN [i \in InvIds |-> NoInvocation]
              ELSE inv
    /\ UNCHANGED <<executionLog, sessionVars, moduleState, launches,
                   cleanupVars, doc, now, consumed>>

\* await rateLimiter.consume settles (points: 1 per key): 429, or the point
\* is used and req.json() is called
ConsumeSettled(r) ==
    /\ request[r].pc = "limit"
    /\ IF request[r].ip \in consumed
       THEN /\ request' = [request EXCEPT ![r].pc = "rejected",
                                          ![r].status = 429]
            /\ UNCHANGED consumed
       ELSE /\ request' = [request EXCEPT ![r].pc = "json"]
            /\ consumed' = consumed \cup {request[r].ip}
    /\ UNCHANGED <<executionLog, sessionVars, moduleState, launches, inv,
                   cleanupVars, doc, now>>

\* await req.json() settles: 400; or resetExecutionLog(), the stream is
\* made, its start() calls run(agent, task, ...) and the response is returned
JsonSettled(r) ==
    /\ request[r].pc = "json"
    /\ \E body \in Bodies :
         IF body.json /\ TaskGiven(body)
         THEN /\ ResetExecutionLog
              /\ request' = [request EXCEPT ![r] =
                                [@ EXCEPT !.pc = "running", !.body = <<body>>,
                                          !.status = 200,
                                          !.left = Len(executionLog),
                                          !.resets = @ + 1,
                                          !.runs = @ + 1]]
         ELSE /\ request' = [request EXCEPT ![r].pc = "rejected",
                                            ![r].body = <<body>>,
                                            ![r].status = 400]
              /\ UNCHANGED <<executionLog, sessionVars, moduleState, launches,
                             inv, cleanupVars, doc, now>>
    /\ UNCHANGED consumed

\* await run(...) settles, once the tools it invoked have: the line is
\* written, the stream closed and cleanupBrowser() called
RunSettled(r) ==
    /\ request[r].pc = "running"
    /\ Quiet
    /\ \E ok \in BOOLEAN, sent \in Sends :
         /\ ~ok => sent # "result"
         /\ LET body == request[r].body[1]
                payload ==
                    CASE sent = "result" -> <<ResultPayload(body, executionLog)>>
                      [] sent = "error"  -> <<ErrorPayload(body, executionLog)>>
                      [] sent = "none"   -> <<>>
                reads == IF ok /\ sent # "result" THEN 2 ELSE 1
                after == [request[r] EXCEPT !.pc = "finally",
                                            !.payload = payload,
                                            !.reads = reads]
            IN  IF InFinally(sent = "result")
                THEN /\ CleanupCall
                     /\ request' = [request EXCEPT ![r] =
                                       [after EXCEPT !.cleanups = @ + 1]]
                ELSE /\ request' = [request EXCEPT ![r] = after]
                     /\ UNCHANGED <<executionLog, sessionVars, moduleState,
                                    launches, inv, cleanupVars, doc, now>>
    /\ UNCHANGED consumed

\* The tools the run of a task is given
TaskTools == {"open_url", "take_screenshot", "get_response_data"}

\* Requests one after another, the run of each invoking its tools one at a
\* time
TaskNext ==
    \/ ModuleLoad
    \/ PostCall(1)
    \/ ConsumeSettled(1)
    \/ JsonSettled(1)
    \/ /\ request[1].pc = "running" /\ Quiet
       /\ \E i \in InvIds, toolName \in TaskTools :
            \E args \in ArgsOf(toolName) : Invoke(i, toolName, args)
    \/ \E i \in InvIds : Step(i, FALSE)
    \/ RunSettled(1)
    \/ CleanupStep

TaskSpec == Init /\ [][TaskNext]_vars

\* Requests as they arrive: a POST is handled while another is
Running == {r \in ReqIds : request[r].pc = "running"}

OverlapNext ==
    \/ ModuleLoad
    \/ \E r \in ReqIds : request[r].calls = 0 /\ PostCall(r)
    \/ \E r \in ReqIds : ConsumeSettled(r)
    \/ \E r \in ReqIds : JsonSettled(r)
    \/ /\ Running # {} /\ Quiet
       /\ \E i \in InvIds : Invoke(i, "take_screenshot", EmptyObject)
    \/ \E i \in InvIds : Step(i, FALSE)
    \/ \E r \in ReqIds : cleanupPc = "idle" /\ RunSettled(r)
    \/ CleanupStep

OverlapSpec == Init /\ [][OverlapNext]_vars

(***************************************************************************)
(* logToolSuccess and logToolError alone, on every log of at most MaxLog   *)
(* entries: of two tools, each pending, resolved by a result or an error,  *)
(* or appended already resolved.  inv[1] holds the last call: tool, the    *)
(* name; pc, "returned" for logToolSuccess and "threw" for logToolError;   *)
(* out, the result or the message; polls, the calls so far.                *)
(***************************************************************************)
LogResult == [success |-> TRUE]
LogMessage == "Screenshot failed"

LogEntries ==
    [toolName : OverlapTools, args : {Absent, <<EmptyObject>>},
     result : {Absent, <<LogResult>>}, error : {Absent, <<LogMessage>>},
     timestamp : {ToISOString(0)}]

\* The entries the three log operations leave: none has a result and an
\* error, and one without args was appended resolved
PossibleEntries ==
    {e \in LogEntries : /\ ~(e.result # Absent /\ e.error # Absent)
                        /\ e.args = Absent => Resolved(e)}

RECURSIVE LogsOf(_)
LogsOf(n) ==
    IF n = 0 THEN {<<>>}
    ELSE LET shorter == LogsOf(n - 1)
         IN  shorter \cup {Append(log, e) : log \in {l \in shorter : Len(l) = n - 1},
                                            e \in PossibleEntries}

LogInit ==
    /\ executionLog \in LogsOf(MaxLog)
    /\ browser = 1 /\ context = 1 /\ page = 1
    /\ moduleState = "loaded"
    /\ launches = 1
    /\ inv = [i \in InvIds |-> NoInvocation]
    /\ cleanupPc = "idle"
    /\ closeTrace = <<>>
    /\ closeFailed = {}
    /\ cleanupThrew = FALSE
    /\ doc = Blank
    /\ now = 0
    /\ request = [r \in ReqIds |-> NoRequest]
    /\ consumed = {}

\* logToolSuccess(toolName, result)
LogSuccess ==
    /\ inv[1].polls < MaxUpdates
    /\ \E toolName \in OverlapTools :
         /\ executionLog' = LogToolSuccess(executionLog, toolName, LogResult, now)
         /\ inv' = [inv EXCEPT ![1].tool = toolName, ![1].pc = "returned",
                               ![1].out = <<LogResult>>, ![1].polls = @ + 1]
    /\ UNCHANGED <<requestVars, sessionVars, moduleState, launches, cleanupVars,
                   doc, now>>

\* logToolError(toolName, error)
LogFailure ==
    /\ inv[1].polls < MaxUpdates
    /\ \E toolName \in OverlapTools :
         /\ executionLog' = LogToolError(executionLog, toolName, LogMessage, now)
         /\ inv' = [inv EXCEPT ![1].tool = toolName, ![1].pc = "threw",
                               ![1].out = <<LogMessage>>, ![1].polls = @ + 1]
    /\ UNCHANGED <<requestVars, sessionVars, moduleState, launches, cleanupVars,
                   doc, now>>

LogNext == LogSuccess \/ LogFailure

LogSpec == LogInit /\ [][LogNext]_vars

(***************************************************************************)
(* Tool invocations that overlap on a session that a cleanupBrowser call   *)
(* has ended: no browser, no context, no page.  No other cleanup follows,  *)
(* and the launches are counted from here.                                 *)
(***************************************************************************)
CleanedUpInit ==
    /\ executionLog = <<>>
    /\ browser = Null /\ context = Null /\ page = Null
    /\ moduleState = "loaded"
    /\ launches = 0
    /\ inv = [i \in InvIds |-> NoInvocation]
    /\ cleanupPc = "idle"
    /\ closeTrace = <<[handle |-> "page", attempted |-> TRUE],
                      [handle |-> "context", attempted |-> TRUE],
                      [handle |-> "browser", attempted |-> TRUE]>>
    /\ closeFailed = {}
    /\ cleanupThrew = FALSE
    /\ doc = Blank
    /\ now = 0
    /\ request = [r \in ReqIds |-> NoRequest]
    /\ consumed = {}

RelaunchNext ==
    \/ \E i \in InvIds, toolName \in OverlapTools :
         \E args \in ArgsOf(toolName) : Invoke(i, toolName, args)
    \/ \E i \in InvIds : Step(i, FALSE)

RelaunchSpec == CleanedUpInit /\ [][RelaunchNext]_vars

(***************************************************************************)
(* One invocation of any tool on a page that has what the tool looks for,  *)
(* every combination of its browser calls rejecting.                       *)
(***************************************************************************)
ReadyInit ==
    /\ executionLog = <<>>
    /\ browser = 1 /\ context = 1 /\ page = 1
    /\ moduleState = "loaded"
    /\ launches = 1
    /\ inv = [i \in InvIds |-> NoInvocation]
    /\ cleanupPc = "idle"
    /\ closeTrace = <<>>
    /\ closeFailed = {}
    /\ cleanupThrew = FALSE
    /\ doc = Example
    /\ now = 0
    /\ request = [r \in ReqIds |-> NoRequest]
    /\ consumed = {}

ReadyNext ==
    \/ \E toolName \in ToolNames :
         \E args \in ArgsOf(toolName) : Invoke(1, toolName, args)
    \/ MkdirSettled(1)
    \/ GuardPage(1)
    \/ Body(1, TRUE, TRUE)

ReadySpec == ReadyInit /\ [][ReadyNext]_vars

(***************************************************************************)
(* type_in_field alone, on every document of at most MaxPresent elements   *)
(* among those its candidates can match.                                   *)
(***************************************************************************)
RECURSIVE UpTo(_, _)
UpTo(U, n) ==
    IF n = 0 THEN {{}}
    ELSE LET S == UpTo(U, n - 1) IN S \cup {D \cup {x} : D \in S, x \in U}

Range(list) == {list[k] : k \in DOMAIN list}

Matchable(f) ==
    {ByLabel(Str(f))} \cup Range(AllSelectors(Str(f)))
        \cup Range(EmailFallbacks) \cup Range(PasswordFallbacks)
        \cup Range(NameFallbacks)

TypeDocuments ==
    UNION {{[Example EXCEPT !.dom = D] : D \in UpTo(Matchable(Trim(f)), MaxPresent)}
           : f \in Fields}

\* The module loaded and a document opened
TypeInit ==
    /\ executionLog = <<>>
    /\ browser = 1 /\ context = 1 /\ page = 1
    /\ moduleState = "loaded"
    /\ launches = 1
    /\ inv = [i \in InvIds |-> NoInvocation]
    /\ cleanupPc = "idle"
    /\ closeTrace = <<>>
    /\ closeFailed = {}
    /\ cleanupThrew = FALSE
    /\ doc \in TypeDocuments
    /\ now = 0
    /\ request = [r \in ReqIds |-> NoRequest]
    /\ consumed = {}

\* A field is asked for on the documents drawn from its own candidates: the
\* elements of another field's are, to it, elements that match nothing
TypeNext ==
    \/ \E f \in Fields :
         /\ doc.dom \subseteq Matchable(Trim(f))
         /\ Invoke(1, "type_in_field", [field |-> f, text |-> "a@b.com"])
    \/ MkdirSettled(1)
    \/ GuardPage(1)
    \/ RunBody(1, TRUE)

TypeSpec == TypeInit /\ [][TypeNext]_vars

(***************************************************************************)
(* click_by_text alone, on every document of at most MaxPresent elements   *)
(* among those its candidates can match.                                   *)
(***************************************************************************)
Clickable(text) == Range(ClickCandidates(Str(text), Str(ToLowerCase(text))))

ClickDocuments ==
    UNION {{[Example EXCEPT !.dom = D] : D \in UpTo(Clickable(text), MaxPresent)}
           : text \in Texts}

ClickInit ==
    /\ executionLog = <<>>
    /\ browser = 1 /\ context = 1 /\ page = 1
    /\ moduleState = "loaded"
    /\ launches = 1
    /\ inv = [i \in InvIds |-> NoInvocation]
    /\ cleanupPc = "idle"
    /\ closeTrace = <<>>
    /\ closeFailed = {}
    /\ cleanupThrew = FALSE
    /\ doc \in ClickDocuments
    /\ now = 0
    /\ request = [r \in ReqIds |-> NoRequest]
    /\ consumed = {}

ClickNext ==
    \/ \E text \in Texts : Invoke(1, "click_by_text", [text |-> text])
    \/ MkdirSettled(1)
    \/ GuardPage(1)
    \/ Body(1, TRUE, TRUE)

ClickSpec == ClickInit /\ [][ClickNext]_vars

(***************************************************************************)
(* wait_for_human alone, on a page whose challenge comes and goes as the   *)
(* human and the site act.                                                 *)
(***************************************************************************)
Site == <<"a",".","i","o","/">>
SorryPage == <<"a",".","i","o","/","s","o","r","r","y">>

WaitDocuments ==
    {[url |-> u, title |-> "", dom |-> D, text |-> <<>>] :
        u \in {Site, SorryPage}, D \in SUBSET {CaptchaFrames, VerifyTexts}}

WaitInit ==
    /\ executionLog = <<>>
    /\ browser = 1 /\ context = 1 /\ page = 1
    /\ moduleState = "loaded"
    /\ launches = 1
    /\ inv = [i \in InvIds |-> NoInvocation]
    /\ cleanupPc = "idle"
    /\ closeTrace = <<>>
    /\ closeFailed = {}
    /\ cleanupThrew = FALSE
    /\ doc \in WaitDocuments
    /\ now = PollInterval
    /\ request = [r \in ReqIds |-> NoRequest]
    /\ consumed = {}

\* The page changes under the loop
PageChanges ==
    /\ InFlight(1)
    /\ doc' \in WaitDocuments \ {doc}
    /\ UNCHANGED <<requestVars, executionLog, sessionVars, moduleState, launches, inv,
                   cleanupVars, now>>

WaitNext ==
    \/ Invoke(1, "wait_for_human", EmptyObject)
    \/ MkdirSettled(1)
    \/ GuardPage(1)
    \/ WaitStep(1)
    \/ PageChanges

WaitSpec == WaitInit /\ [][WaitNext]_vars

\* Every awaited call of the invocation settles
WaitLiveSpec ==
    WaitSpec /\ WF_vars(MkdirSettled(1) \/ GuardPage(1) \/ WaitStep(1))

(***************************************************************************)
(* wait_for_human alone on a page that stays as it is, each iteration      *)
(* remembering which of its two detection queries rejected.                *)
(***************************************************************************)
ProbeStep(i) ==
    \/ WaitPoll(i)
    \/ CaptchaProbe(i, TRUE)
    \/ VerifyProbe(i, TRUE)
    \/ SleepSettled(i)
    \/ ShotSettled(i)

ProbeNext ==
    \/ Invoke(1, "wait_for_human", EmptyObject)
    \/ MkdirSettled(1)
    \/ GuardPage(1)
    \/ ProbeStep(1)

ProbeSpec == WaitInit /\ [][ProbeNext]_vars

(***************************************************************************)
(* get_response_data alone, on pages whose text is up to a few characters  *)
(* longer than the preview, with runs of newlines in it.                   *)
(***************************************************************************)
\* pre "a", a run of newlines, then, if twice, "c" and the run again, then
\* post "b"
TextOf(pre, run, twice, post) ==
    LET second == IF twice THEN 1 + run ELSE 0 IN
    [k \in 1..(pre + run + second + post) |->
        IF k <= pre THEN "a"
        ELSE IF k <= pre + run THEN "\n"
        ELSE IF k <= pre + run + second
             THEN (IF k = pre + run + 1 THEN "c" ELSE "\n")
        ELSE "b"]

Pads ==
    {0, 1, PreviewLimit - 2, PreviewLimit - 1, PreviewLimit, PreviewLimit + 1}

PreviewDocuments ==
    {[Example EXCEPT !.dom = {}, !.text = TextOf(pre, run, twice, post)] :
        pre \in Pads, run \in 0..MaxRun, twice \in BOOLEAN, post \in {0, 1, 3}}

PreviewInit ==
    /\ executionLog = <<>>
    /\ browser = 1 /\ context = 1 /\ page = 1
    /\ moduleState = "loaded"
    /\ launches = 1
    /\ inv = [i \in InvIds |-> NoInvocation]
    /\ cleanupPc = "idle"
    /\ closeTrace = <<>>
    /\ closeFailed = {}
    /\ cleanupThrew = FALSE
    /\ doc \in PreviewDocuments
    /\ now = 0
    /\ request = [r \in ReqIds |-> NoRequest]
    /\ consumed = {}

PreviewNext ==
    \/ Invoke(1, "get_response_data", EmptyObject)
    \/ MkdirSettled(1)
    \/ GuardPage(1)
    \/ RunBody(1, TRUE)

PreviewSpec == PreviewInit /\ [][PreviewNext]_vars

(***************************************************************************)
(*                          PROPERTIES                                     *)
(***************************************************************************)

\* C1: no entry of the execution log has both its result and its error set,
\* whatever the interleaving of resets, tool starts and tool ends.
ResultErrorExclusive ==
    \A k \in DOMAIN executionLog :
        ~(executionLog[k].result # Absent /\ executionLog[k].error # Absent)

\* Two tools have ended, one with a result and one with an error, and the
\* log holds both entries.
ResultErrorExclusiveWitness ==
    /\ \E k \in DOMAIN executionLog : executionLog[k].result # Absent
    /\ \E k \in DOMAIN executionLog : executionLog[k].error # Absent
    /\ \E i \in InvIds : inv[i].pc = "returned"
    /\ \E i \in InvIds : inv[i].pc = "threw"

\* C2: an entry that is resolved is not changed by any later step, field by
\* field, for as long as the log holds it (resetExecutionLog drops it).
ResolvedEntryImmutable ==
    [][\A k \in DOMAIN executionLog :
          (Resolved(executionLog[k]) /\ k \in DOMAIN executionLog')
              => /\ executionLog'[k].toolName = executionLog[k].toolName
                 /\ executionLog'[k].args = executionLog[k].args
                 /\ executionLog'[k].result = executionLog[k].result
                 /\ executionLog'[k].error = executionLog[k].error
                 /\ executionLog'[k].timestamp = executionLog[k].timestamp]_vars

\* A resolved entry is followed by another entry of the same tool that was
\* resolved after it: the later start and end both went past it.
ResolvedEntryImmutableWitness ==
    \E k \in DOMAIN executionLog, j \in DOMAIN executionLog :
        /\ k < j
        /\ executionLog[k].toolName = executionLog[j].toolName
        /\ Resolved(executionLog[k]) /\ Resolved(executionLog[j])
        /\ \A i \in InvIds : Finished(i) /\ inv[i].fresh

\* C3: with one invocation at a time and no reset since, the entry an
\* invocation pushed at its start is its own (name and args), is pending
\* exactly while the invocation runs, holds the result and no error once it
\* has returned and an error and no result once it has thrown; and the log
\* has one entry per invocation.
OneEntryPerInvocation ==
    /\ \A i \in InvIds :
         (Started(i) /\ inv[i].fresh) =>
            /\ inv[i].idx \in DOMAIN executionLog
            /\ LET e == executionLog[inv[i].idx] IN
               /\ e.toolName = inv[i].tool
               /\ e.args = <<inv[i].args>>
               /\ InFlight(i) => ~Resolved(e)
               /\ inv[i].pc = "returned" =>
                    e.result = <<inv[i].out[1].result>> /\ e.error = Absent
               /\ inv[i].pc = "threw" => e.error # Absent /\ e.result = Absent
    /\ (\A i \in InvIds : Started(i) => inv[i].fresh) =>
          Len(executionLog) = Cardinality({i \in InvIds : Started(i)})

\* open_url has returned, another tool has thrown, and the log has the two
\* entries.
OneEntryPerInvocationWitness ==
    /\ \A i \in InvIds : Finished(i) /\ inv[i].fresh
    /\ \E i \in InvIds : inv[i].tool = "open_url" /\ inv[i].pc = "returned"
    /\ \E i \in InvIds : inv[i].tool # "open_url" /\ inv[i].pc = "threw"
    /\ Len(executionLog) = MaxInv

\* C4: page, context and browser are all present or all absent, in every
\* state.
HandlesAllOrNone ==
    /\ (page # Null) <=> (context # Null)
    /\ (context # Null) <=> (browser # Null)

\* The step that ends a cleanupBrowser call
CleanupEnds == cleanupPc # "idle" /\ cleanupPc' = "idle"

\* C5: every cleanupBrowser call ends without throwing and with browser,
\* context and page absent, whatever the session was and whichever close
\* failed.
CleanupIdempotent ==
    [][/\ ~cleanupThrew'
       /\ CleanupEnds => (browser' = Null /\ context' = Null /\ page' = Null)]_vars

\* A cleanupBrowser call that found nothing to close (the session was
\* already cleaned up) has ended: nothing has thrown and nothing is left.
CleanupIdempotentWitness ==
    /\ cleanupPc = "idle"
    /\ Len(closeTrace) = 3
    /\ \A k \in DOMAIN closeTrace : ~closeTrace[k].attempted
    /\ browser = Null /\ context = Null /\ page = Null
    /\ ~cleanupThrew

CloseOrder == <<"page", "context", "browser">>

\* C6: cleanupBrowser evaluates the closes in the order page, context,
\* browser, goes on to the next one whatever the last one did, and resets
\* the handles only after the third.
ClosesInOrderThenReset ==
    [][/\ Len(closeTrace') <= Len(CloseOrder)
       /\ \A k \in DOMAIN closeTrace' : closeTrace'[k].handle = CloseOrder[k]
       /\ cleanupPc' # "idle" => CloseOrder[Len(closeTrace')] = cleanupPc'
       /\ CleanupEnds =>
            /\ Len(closeTrace) = Len(CloseOrder)
            /\ browser' = Null /\ context' = Null /\ page' = Null]_vars

\* The close of the page has failed, and the closes of the context and of
\* the browser have been attempted all the same.
ClosesInOrderThenResetWitness ==
    /\ cleanupPc = "browser"
    /\ "page" \in closeFailed
    /\ closeTrace[2].attempted /\ closeTrace[3].attempted

InitializationInFlight ==
    \/ moduleState \in {"launch", "newContext", "newPage"}
    \/ \E i \in InvIds : inv[i].pc \in {"launch", "newContext", "newPage"}

\* C7: with one invocation at a time, once a browser exists no step but the
\* end of a cleanup launches a browser or changes a handle, and the tools
\* that ran with no cleanup in between ran on the same page.
SessionReused ==
    [][/\ (browser # Null /\ ~InitializationInFlight /\ ~CleanupEnds) =>
            /\ launches' = launches
            /\ browser' = browser /\ context' = context /\ page' = page
       /\ \A i, j \in InvIds :
            (inv'[i].kept /\ inv'[j].kept
               /\ inv'[i].used # Null /\ inv'[j].used # Null)
              => inv'[i].used = inv'[j].used]_vars

\* Two tools have run one after the other on the page the module created.
SessionReusedWitness ==
    /\ \A i \in InvIds : inv[i].pc = "returned" /\ inv[i].kept /\ inv[i].used = page
    /\ page # Null
    /\ launches = 1

\* C8: until the first tool is invoked no browser is launched and the three
\* handles are absent.
SessionCreatedLazily ==
    (\A i \in InvIds : ~Started(i)) =>
        /\ launches = 0
        /\ browser = Null /\ context = Null /\ page = Null

\* The queries type_in_field runs for a field, in the order it runs them
Candidates(field) ==
    LET f == Trim(field) IN
    <<ByLabel(Str(f))>> \o AllSelectors(Str(f)) \o SmartFallbacks(ToLowerCase(f))

\* What type_in_field reports as selectorUsed for the k-th of them
ReportedAs(field, k) ==
    IF k > 1 + Len(AllSelectors(Str(Trim(field))))
    THEN "smart:" \o Candidates(field)[k]
    ELSE Candidates(field)[k]

Present(field) == {k \in DOMAIN Candidates(field) : Candidates(field)[k] \in doc.dom}

TypeCalls == {i \in InvIds : inv[i].tool = "type_in_field"}

\* C9: whichever candidates the document matches, a type_in_field that
\* returns has filled the first candidate, in the order label, attribute
\* selectors, label patterns, keyword fallbacks, that the document matches,
\* and nothing else, and reports it as selectorUsed, in its result and in
\* its log entry.
FirstPresentCandidateWins ==
    \A i \in TypeCalls :
        inv[i].pc = "returned" =>
            LET field == inv[i].args.field
                out   == inv[i].out[1]
            IN  /\ Present(field) # {}
                /\ \E k \in Present(field) :
                     /\ \A j \in Present(field) : k <= j
                     /\ out.fills = <<Candidates(field)[k]>>
                     /\ out.result.selectorUsed = ReportedAs(field, k)
                /\ executionLog[inv[i].idx].result = <<out.result>>

\* Field "Email" on a document where only input[type="email"] is present,
\* and one more element that comes later in the order: the call has
\* returned the email fallback.
FirstPresentCandidateWinsWitness ==
    /\ inv[1].pc = "returned"
    /\ inv[1].args.field = Email
    /\ doc.dom = {"input[type=\"email\"]", "input[name=\"email\"]"}
    /\ inv[1].out[1].result.selectorUsed = "smart:input[type=\"email\"]"

\* C10: a type_in_field that ends with the field-not-found error, whose
\* message is "Input field not found: " and the field as it was asked for,
\* found none of the field's candidates in the document, filled nothing and
\* took no screenshot, and its log entry holds that message as its error
\* and no result; and a call that found none of them and met no driver
\* error ends with it.
NotFoundOnlyWhenExhausted ==
    \A i \in TypeCalls :
        inv[i].pc = "threw" =>
            LET field    == inv[i].args.field
                out      == inv[i].out[1]
                e        == executionLog[inv[i].idx]
                notFound == "Input field not found: " \o Str(field)
            IN  /\ out.err \notin DriverErrors \cup {NullPageError} =>
                     /\ out.err.message = notFound
                     /\ e.error = <<notFound>>
                /\ e.error = <<notFound>> =>
                     /\ Present(field) = {}
                     /\ out.fills = <<>>
                     /\ out.shots = <<>>
                     /\ e.result = Absent

\* Field " name " on a document that has elements, none of them one of its
\* candidates: the call has thrown, and the message has the field untrimmed.
NotFoundOnlyWhenExhaustedWitness ==
    /\ inv[1].pc = "threw"
    /\ inv[1].args.field = PaddedName
    /\ doc.dom = {"input[type=\"email\"]", "input[name=\"password\"]"}
    /\ executionLog[inv[1].idx].error = <<"Input field not found:  name ">>

ClickCalls == {i \in InvIds : inv[i].tool = "click_by_text"}

\* The order click_by_text is to try its candidates in: button, link,
\* role=button, role=menuitem, then the free text, lower-cased
ClickOrder(text) ==
    << "button:has-text(\"" \o Str(text) \o "\")",
       "a:has-text(\"" \o Str(text) \o "\")",
       "[role=\"button\"]:has-text(\"" \o Str(text) \o "\")",
       "[role=\"menuitem\"]:has-text(\"" \o Str(text) \o "\")",
       "text=" \o Str(ToLowerCase(text)) >>

\* C11: a click_by_text that returns has clicked the first candidate, in the
\* order button, link, role=button, role=menuitem, free text, that the
\* document matches, and no other, and reports it as selectorUsed, in its
\* result and in its log entry.
FirstPresentCandidateClicked ==
    \A i \in ClickCalls :
        inv[i].pc = "returned" =>
            LET text == inv[i].args.text
                out  == inv[i].out[1]
                was  == {k \in 1..5 : ClickOrder(text)[k] \in inv[i].seen}
            IN  /\ was # {}
                /\ \E k \in was :
                     /\ \A j \in was : k <= j
                     /\ out.clicks = <<ClickOrder(text)[k]>>
                     /\ out.result.selectorUsed = ClickOrder(text)[k]
                /\ executionLog[inv[i].idx].result = <<out.result>>

\* "Sign Up" on a document with a link and a free-text match, and no
\* button: the link has been clicked.
FirstPresentCandidateClickedWitness ==
    /\ inv[1].pc = "returned"
    /\ inv[1].args.text = SignUp
    /\ inv[1].seen = {"a:has-text(\"Sign Up\")", "text=sign up"}
    /\ inv[1].out[1].clicks = <<"a:has-text(\"Sign Up\")">>

\* C12: a click_by_text that found none of its candidates in the document
\* and met no driver error throws "Could not find clickable text: " and the
\* text asked for, in quotes; a call that ends with that error found none
\* of them, clicked nothing and took no screenshot, and its log entry holds
\* that message as its error and no result.
ClickNotFoundNamesText ==
    \A i \in ClickCalls :
        inv[i].pc = "threw" =>
            LET text     == inv[i].args.text
                out      == inv[i].out[1]
                e        == executionLog[inv[i].idx]
                notFound == "Could not find clickable text: \"" \o Str(text) \o "\""
                was      == {k \in 1..5 : ClickOrder(text)[k] \in inv[i].seen}
            IN  /\ out.err \notin DriverErrors \cup {NullPageError} =>
                     /\ was = {}
                     /\ out.err.message = notFound
                     /\ e.error = <<notFound>>
                /\ e.error = <<notFound>> =>
                     /\ was = {}
                     /\ out.clicks = <<>>
                     /\ out.shots = <<>>
                     /\ e.toolName = "click_by_text"
                     /\ e.result = Absent

\* " OK" on a document that has a "Sign Up" button and nothing that
\* matches " OK": the call has thrown, and the message has the text as asked.
ClickNotFoundNamesTextWitness ==
    /\ inv[1].pc = "threw"
    /\ inv[1].args.text = PaddedOk
    /\ inv[1].seen = {"button:has-text(\"Sign Up\")"}
    /\ executionLog[inv[1].idx].error = <<"Could not find clickable text: \" OK\"">>

WaitCalls == {i \in InvIds : inv[i].tool = "wait_for_human"}

\* C13: an iteration of wait_for_human whose probes detect no reCAPTCHA
\* frame and no challenge phrase and whose URL has no "sorry" goes to the
\* screenshot without sleeping, and the call that returns does so from such
\* an iteration, the first one, with no time spent since it decided;
\* waitForTimeout is called only in an iteration where one of the three is
\* detected, and takes 1.5 s at least.
ReturnsAtFirstClearPoll ==
    [][\A i \in WaitCalls :
         /\ (inv[i].pc = "verify" /\ inv'[i].pc = "shot") =>
               /\ ~inv'[i].hasCaptcha /\ ~inv'[i].hasVerifyText
               /\ ~Includes(inv'[i].url, <<"s","o","r","r","y">>)
               /\ inv'[i].sleeps = inv[i].sleeps /\ now' = now
         /\ (inv[i].pc = "verify" /\ inv'[i].pc \notin {"verify", "shot"}) =>
               /\ inv'[i].pc = "sleep"
               /\ \/ inv'[i].hasCaptcha
                  \/ inv'[i].hasVerifyText
                  \/ Includes(inv'[i].url, <<"s","o","r","r","y">>)
         /\ inv'[i].sleeps # inv[i].sleeps =>
               /\ inv[i].pc = "verify" /\ inv'[i].pc = "sleep"
               /\ inv'[i].sleeps = inv[i].sleeps + 1
         /\ (inv[i].pc = "sleep" /\ inv'[i].pc # "sleep") => now' >= now + 1500
         /\ (inv[i].pc # "returned" /\ inv'[i].pc = "returned") =>
               /\ inv[i].pc = "shot"
               /\ now' = now
               /\ inv'[i].sleeps = inv'[i].polls - 1]_vars

\* The challenge was there at the first poll and gone at the second: the
\* call has returned 1.5 s after it began, having slept once.
ReturnsAtFirstClearPollWitness ==
    /\ inv[1].pc = "returned"
    /\ inv[1].polls = 2 /\ inv[1].sleeps = 1
    /\ now - inv[1].start = 1500

\* C14: a wait_for_human that ends with "Captcha wait timed out after 2
\* minutes" does so 120000 ms or more after its loop began, every iteration
\* having detected a challenge; a call whose every iteration detected one
\* does not return, and ends with that error unless the browser failed it;
\* and every call ends.
TimesOutAfterBudgetOnly ==
    /\ [](\A i \in WaitCalls :
            /\ (inv[i].pc = "threw"
                  /\ inv[i].out[1].err.message = "Captcha wait timed out after 2 minutes")
                 => /\ now - inv[i].start >= 120000
                    /\ inv[i].polls > 0 /\ inv[i].sleeps = inv[i].polls
            /\ (Finished(i) /\ inv[i].polls > 0 /\ inv[i].sleeps = inv[i].polls)
                 => /\ inv[i].pc = "threw"
                    /\ inv[i].out[1].err \notin DriverErrors =>
                         inv[i].out[1].err.message
                             = "Captcha wait timed out after 2 minutes")
    /\ (InFlight(1) ~> Finished(1))

\* The challenge never cleared and every sleep was on time: the call has
\* thrown at the 81st test of the budget, 120 s to the millisecond after it
\* began.
TimesOutAfterBudgetOnlyWitness ==
    /\ inv[1].pc = "threw"
    /\ inv[1].out[1].err.message = "Captcha wait timed out after 2 minutes"
    /\ inv[1].polls = 80 /\ inv[1].sleeps = 80
    /\ now - inv[1].start = 120000

\* C15: a wait_for_human that timed out took no screenshot, and its log
\* entry holds the timeout message as its error and no result; a call that
\* took a screenshot is one that returned, and the screenshot is the one in
\* its result.
NoScreenshotOnTimeout ==
    \A i \in WaitCalls :
        Finished(i) =>
            LET out == inv[i].out[1]
                e   == executionLog[inv[i].idx]
            IN  /\ (inv[i].pc = "threw"
                      /\ out.err.message = "Captcha wait timed out after 2 minutes")
                     => /\ out.shots = <<>>
                        /\ e.toolName = "wait_for_human"
                        /\ e.error = <<"Captcha wait timed out after 2 minutes">>
                        /\ e.result = Absent
                /\ out.shots # <<>> =>
                     /\ inv[i].pc = "returned"
                     /\ out.shots = <<out.result.screenshot>>
                     /\ inv[i].sleeps = inv[i].polls - 1

\* The challenge never cleared and a sleep ran late: the call has timed out
\* past the 120 s, on the "sorry" page.
NoScreenshotOnTimeoutWitness ==
    /\ inv[1].pc = "threw"
    /\ inv[1].out[1].err.message = "Captcha wait timed out after 2 minutes"
    /\ now - inv[1].start > 120000
    /\ doc.url = SorryPage
    /\ executionLog[inv[1].idx].error = <<"Captcha wait timed out after 2 minutes">>

PreviewCalls == {i \in InvIds : inv[i].tool = "get_response_data"}

\* C16: whatever the page's text, the visibleText of a get_response_data
\* that returns, in its result and in its log entry, is at most 2000
\* characters long and has no three newlines in a row.
PreviewBounded ==
    \A i \in PreviewCalls :
        inv[i].pc = "returned" =>
            LET v == inv[i].out[1].result.visibleText IN
            /\ Len(v) <= 2000
            /\ \A k \in 1..(Len(v) - 2) :
                 ~(v[k] = "\n" /\ v[k + 1] = "\n" /\ v[k + 2] = "\n")
            /\ executionLog[inv[i].idx].result = <<inv[i].out[1].result>>

\* A text of 1998 characters, four newlines and three more characters: the
\* preview is cut at 2000, after the two newlines the run was replaced by.
PreviewBoundedWitness ==
    /\ inv[1].pc = "returned"
    /\ doc.text = TextOf(1998, 4, FALSE, 3)
    /\ Len(inv[1].out[1].result.visibleText) = 2000
    /\ inv[1].out[1].result.visibleText[1999] = "\n"
    /\ inv[1].out[1].result.visibleText[2000] = "\n"

\* The awaited browser calls of each tool that carry no .catch: the ones a
\* returning body has all been through
LoadBearing(toolName) ==
    CASE toolName = "open_url"          -> {"goto", "screenshot"}
      [] toolName = "take_screenshot"   -> {"screenshot"}
      [] toolName = "type_in_field"     -> {"fill", "screenshot"}
      [] toolName = "click_by_text"     -> {"click", "screenshot"}
      [] toolName = "press_enter"       -> {"press", "screenshot"}
      [] toolName = "scroll_page"       -> {"wheel", "screenshot"}
      [] toolName = "click_at"          -> {"mouse", "screenshot"}
      [] toolName = "get_response_data" -> {"title", "evaluate"}
      [] toolName = "wait_for_human"    -> {"challenge", "screenshot"}

ResetRunReadCleanupInOrder ==
    /\ [](/\ request[1].pc \in {"limit", "json", "rejected"} =>
               /\ request[1].resets = 0 /\ request[1].runs = 0
               /\ request[1].reads = 0 /\ request[1].cleanups = 0
               /\ \A i \in InvIds : ~Started(i)
          /\ request[1].pc = "rejected" <=> request[1].status \in {429, 400}
          /\ request[1].pc = "running" =>
               /\ request[1].resets = 1 /\ request[1].runs = 1
               /\ request[1].reads = 0 /\ request[1].cleanups = 0
               /\ cleanupPc = "idle"
          /\ request[1].pc = "finally" =>
               /\ request[1].resets = 1 /\ request[1].runs = 1
               /\ request[1].reads >= 1 /\ request[1].cleanups = 1
               /\ Quiet)
    /\ [][/\ request'[1].pc = "rejected" =>
               UNCHANGED <<executionLog, sessionVars, cleanupVars>>
          /\ \A i \in InvIds :
               (~Started(i) /\ Started(i)') =>
                   request[1].pc = "running" /\ request[1].resets = 1
          /\ (cleanupPc = "idle" /\ cleanupPc' # "idle") =>
               /\ request[1].pc = "running" /\ request'[1].pc = "finally"
               /\ Quiet
               /\ request'[1].cleanups = 1]_vars

\* A task whose run invoked two tools and then failed: the error line holds
\* the two entries, and the one cleanupBrowser call has ended and left no
\* session.
ResetRunReadCleanupInOrderWitness ==
    /\ request[1].pc = "finally"
    /\ request[1].payload # <<>>
    /\ "error" \in DOMAIN request[1].payload[1]
    /\ Len(request[1].payload[1].executionLog) = 2
    /\ request[1].cleanups = 1
    /\ cleanupPc = "idle"
    /\ page = Null /\ context = Null /\ browser = Null

\* The tool invocations of the request being handled
OwnCalls == {i \in InvIds : Started(i)}

\* C19: with requests handled one after another, the log is empty right
\* after the reset that starts a task; while the task runs the log holds one
\* entry per tool invocation of that task, in invocation order; and the log
\* in the line written for the task, result or error, is that list: the
\* k-th entry is the k-th invocation's, with its tool, its arguments and
\* its outcome, and nothing of an earlier task.
TaskLogIsOwn ==
    /\ [](/\ request[1].pc = "running" => Len(executionLog) = Cardinality(OwnCalls)
          /\ request[1].payload # <<>> =>
               LET log == request[1].payload[1].executionLog IN
               /\ Len(log) = Cardinality(OwnCalls)
               /\ \A i \in OwnCalls :
                    /\ i <= Len(log)
                    /\ log[i].toolName = inv[i].tool
                    /\ log[i].args = <<inv[i].args>>
                    /\ inv[i].pc = "returned" =>
                         /\ log[i].result = <<inv[i].out[1].result>>
                         /\ log[i].error = Absent
                    /\ inv[i].pc = "threw" =>
                         /\ log[i].result = Absent
                         /\ log[i].error # Absent)
    /\ [][request'[1].resets = request[1].resets + 1 => executionLog' = <<>>]_vars

\* The result line of a task that invoked one tool, after an earlier task
\* had left two entries in the log.
TaskLogIsOwnWitness ==
    /\ request[1].left = 2
    /\ request[1].payload # <<>>
    /\ "screenshots" \in DOMAIN request[1].payload[1]
    /\ Len(request[1].payload[1].executionLog) = 1
    /\ inv[1].pc = "returned"

\* C20: the screenshots list of a result line holds, in log order, the
\* screenshot reference of every entry of the line's log whose result
\* carries a screenshot, whatever tool produced the entry.
ScreenshotsOfEveryTool ==
    (request[1].payload # <<>> /\ "screenshots" \in DOMAIN request[1].payload[1]) =>
        LET log  == request[1].payload[1].executionLog
            kept == SelectSeq(log, HasScreenshot)
        IN  request[1].payload[1].screenshots =
                [k \in DOMAIN kept |-> kept[k].result[1].screenshot]

\* The invocations that captured a screenshot
Captures == {i \in InvIds : Finished(i) /\ inv[i].out[1].shots # <<>>}

\* C21: any two captures made while the process runs, two with the same tag
\* included, return different references (and so write different files).
CapturesDistinct ==
    \A i, j \in Captures :
        i # j => inv[i].out[1].shots # inv[j].out[1].shots

\* C22: at most one accepted task has its agent run in flight at any time.
AtMostOneRun == Cardinality(Running) <= 1

\* The entries of the log that are pending for a tool
PendingFor(toolName) ==
    {k \in DOMAIN executionLog :
        /\ executionLog[k].toolName = toolName
        /\ executionLog[k].result = Absent
        /\ executionLog[k].error = Absent}

\* C23: a success or error update for a tool changes exactly one thing.
\* If an entry of that tool is pending, the pending one with the highest
\* index gets the result (or the error) and nothing else changes, the
\* length included; if none is pending, one entry is appended, already
\* resolved and without args, and the existing entries are unchanged.
UpdateChangesOneEntry ==
    [][inv'[1].polls = inv[1].polls + 1 =>
         LET toolName == inv'[1].tool
             value    == inv'[1].out
             success  == inv'[1].pc = "returned"
             pending  == PendingFor(toolName)
             n        == Len(executionLog)
         IN  IF pending # {}
             THEN LET top == CHOOSE k \in pending : \A j \in pending : j <= k IN
                  /\ Len(executionLog') = n
                  /\ \A k \in 1..n : k # top => executionLog'[k] = executionLog[k]
                  /\ executionLog'[top] =
                        IF success THEN [executionLog[top] EXCEPT !.result = value]
                                   ELSE [executionLog[top] EXCEPT !.error = value]
             ELSE /\ Len(executionLog') = n + 1
                  /\ \A k \in 1..n : executionLog'[k] = executionLog[k]
                  /\ executionLog'[n + 1].toolName = toolName
                  /\ executionLog'[n + 1].args = Absent
                  /\ executionLog'[n + 1].result = (IF success THEN value ELSE Absent)
                  /\ executionLog'[n + 1].error = (IF success THEN Absent ELSE value)
      ]_vars

\* After one logToolError for take_screenshot on a log of three of its
\* entries, the first and third pending: the third holds the error, the
\* first is still pending.
UpdateChangesOneEntryWitness ==
    /\ inv[1].polls = 1 /\ inv[1].pc = "threw" /\ inv[1].tool = "take_screenshot"
    /\ Len(executionLog) = 3
    /\ \A k \in 1..3 : executionLog[k].toolName = "take_screenshot"
    /\ executionLog[1].result = Absent /\ executionLog[1].error = Absent
    /\ executionLog[2].result # Absent
    /\ executionLog[3].error = <<LogMessage>> /\ executionLog[3].args # Absent

\* C24: with one sequential caller, the entry an invocation's success or
\* error update resolves is the one its own start pushed, so the args of
\* a resolved entry are those of the call that produced its result or
\* error; at most one entry is pending at any time, and it is the last; no
\* update appends an entry.
LifoResolvesOwnEntry ==
    /\ [](/\ Cardinality({k \in DOMAIN executionLog :
                             ~Resolved(executionLog[k])}) <= 1
          /\ \A k \in DOMAIN executionLog :
               /\ executionLog[k].args # Absent
               /\ ~Resolved(executionLog[k]) => k = Len(executionLog)
          /\ \A i \in InvIds :
               InFlight(i) => /\ inv[i].idx = Len(executionLog)
                              /\ ~Resolved(executionLog[inv[i].idx]))
    /\ [][\A i \in InvIds :
            (InFlight(i) /\ Finished(i)') =>
                LET k == inv[i].idx IN
                /\ Len(executionLog') = Len(executionLog)
                /\ \A j \in DOMAIN executionLog :
                     j # k => executionLog'[j] = executionLog[j]
                /\ executionLog'[k].args = <<inv[i].args>>
                /\ executionLog'[k].toolName = inv[i].tool
                /\ Resolved(executionLog'[k])
                /\ inv'[i].pc = "returned" =>
                     executionLog'[k].result = <<inv'[i].out[1].result>>
                /\ inv'[i].pc = "threw" =>
                     executionLog'[k].error =
                        <<MessageOf(inv'[i].out[1].err, inv[i].tool)>>
      ]_vars

\* Two take_screenshot calls one after the other, the first failed and the
\* second returned: the first entry holds the error, the second the result.
LifoResolvesOwnEntryWitness ==
    /\ inv[1].tool = "take_screenshot" /\ inv[1].pc = "threw"
    /\ inv[2].tool = "take_screenshot" /\ inv[2].pc = "returned"
    /\ Len(executionLog) = 2
    /\ executionLog[1].error # Absent
    /\ executionLog[2].result = <<inv[2].out[1].result>>

\* C25: between two consecutive cleanups, whatever the interleaving of
\* overlapping tool invocations, the browser is launched at most once and
\* every tool body runs on the same page.
LaunchedOnceBetweenCleanups ==
    /\ launches <= 1
    /\ \A i, j \in InvIds :
         (inv[i].used # Null /\ inv[j].used # Null) => inv[i].used = inv[j].used

\* C26: whatever the interleaving of overlapping tool invocations, several
\* of the same tool included, as long as no reset came between them the log
\* has as many entries as invocations were started and as many resolved
\* entries as invocations have finished, and no entry was appended by an
\* update (every entry has the args of a start).
EntriesMatchInvocations ==
    (\A i \in InvIds : Started(i) => inv[i].fresh) =>
        /\ Len(executionLog) = Cardinality({i \in InvIds : Started(i)})
        /\ Cardinality({k \in DOMAIN executionLog : Resolved(executionLog[k])})
             = Cardinality({i \in InvIds : Finished(i)})
        /\ \A k \in DOMAIN executionLog : executionLog[k].args # Absent
        /\ \A name \in ToolNames :
             Cardinality({k \in DOMAIN executionLog :
                             /\ executionLog[k].toolName = name
                             /\ ~Resolved(executionLog[k])})
               = Cardinality({i \in InvIds : InFlight(i) /\ inv[i].tool = name})

\* Two overlapping invocations of one tool, the one started first finished
\* first: the second entry is resolved, the first is pending.
EntriesMatchInvocationsWitness ==
    /\ inv[1].tool = inv[2].tool
    /\ inv[1].fresh /\ inv[2].fresh
    /\ Finished(1) /\ InFlight(2)
    /\ Len(executionLog) = 2
    /\ Resolved(executionLog[2]) /\ ~Resolved(executionLog[1])

\* C27: in click_by_text, when a candidate is present and the click on it
\* rejects (its 6 s timeout included), the call throws the browser's error,
\* not the "not found" one a later candidate's absence would give; it has
\* clicked nothing and captured no screenshot, the page is as it was, and
\* its log entry holds the error's message and no result.
ClickFailurePropagates ==
    \A i \in ClickCalls :
        (/\ Finished(i)
         /\ "click" \in inv[i].faults
         /\ inv[i].seen \cap Clickable(inv[i].args.text) # {}) =>
            LET out == inv[i].out[1]
                e   == executionLog[inv[i].idx]
            IN  /\ inv[i].pc = "threw"
                /\ out.err \in DriverErrors
                /\ out.clicks = <<>>
                /\ out.shots = <<>>
                /\ doc.dom = inv[i].seen
                /\ e.result = Absent
                /\ e.error = <<IF out.err.message # "" THEN out.err.message
                                                       ELSE "Click failed">>

\* Two candidates were present, every count() resolved and the click did
\* not: the call threw the browser's error.
ClickFailurePropagatesWitness ==
    /\ inv[1].pc = "threw"
    /\ inv[1].tool = "click_by_text"
    /\ inv[1].faults = {"click"}
    /\ Cardinality(inv[1].seen \cap Clickable(inv[1].args.text)) = 2
    /\ executionLog[inv[1].idx].error = <<"browser driver error">>

\* The awaited calls of each tool that carry .catch(() => {})
BestEffort(toolName) ==
    CASE toolName = "open_url"      -> {"wait"}
      [] toolName = "type_in_field" -> {"scroll", "click"}
      [] toolName = "click_by_text" -> {"scroll", "wait"}
      [] toolName = "press_enter"   -> {"wait"}
      [] toolName = "scroll_page"   -> {"wait"}
      [] toolName = "click_at"      -> {"wait"}
      [] OTHER                      -> {}

\* C28: a tool body in which only best-effort calls reject (the waits for
\* DOM-ready and network-idle, the scroll into view, the focus click of
\* type_in_field), on a page that has the element it looks for, returns: it
\* has filled or clicked the element, captured its screenshot, and its log
\* entry holds the success result and no error.
BestEffortFailuresSwallowed ==
    \A i \in InvIds :
        (/\ Finished(i)
         /\ inv[i].used # Null
         /\ inv[i].faults \subseteq BestEffort(inv[i].tool)) =>
            LET out == inv[i].out[1]
                e   == executionLog[inv[i].idx]
            IN  /\ inv[i].pc = "returned"
                /\ out.result.success
                /\ e.result = <<out.result>> /\ e.error = Absent
                /\ inv[i].tool # "get_response_data" =>
                     out.shots = <<out.result.screenshot>>
                /\ inv[i].tool = "type_in_field" =>
                     out.fills = <<"input[type=\"email\"]">>
                /\ inv[i].tool = "click_by_text" =>
                     out.clicks = <<"text=sign up">>

\* type_in_field whose scroll into view and focus click both rejected: the
\* field is filled and the call returned.
BestEffortFailuresSwallowedWitness ==
    /\ inv[1].pc = "returned"
    /\ inv[1].tool = "type_in_field"
    /\ inv[1].faults = {"scroll", "click"}
    /\ inv[1].out[1].fills # <<>>
    /\ inv[1].out[1].clicks = <<>>

\* The most tests of the budget that succeed in one call: a test succeeds
\* less than 120 s after the loop began, and each one that does is followed
\* by a sleep of 1.5 s or more
MostPolls == WaitBudget \div PollInterval

\* C29: every wait_for_human ends, whatever the page does meanwhile: the
\* budget test succeeds at most 80 times in a call; a call that has ended
\* has returned success, or thrown "Captcha wait timed out after 2 minutes",
\* or thrown an error of the browser, one of the three, and stays ended; and
\* a call that is in its loop ends.
WaitTerminates ==
    /\ [](\A i \in WaitCalls :
            /\ inv[i].polls <= MostPolls
            /\ Finished(i) =>
                 LET out      == inv[i].out[1]
                     resolved == /\ inv[i].pc = "returned" /\ out.result.success
                                 /\ inv[i].sleeps = inv[i].polls - 1
                     timedOut == /\ inv[i].pc = "threw" /\ out.err = CaptchaTimedOut
                                 /\ inv[i].sleeps = inv[i].polls
                     failed   == inv[i].pc = "threw" /\ out.err \in DriverErrors
                 IN  /\ resolved \/ timedOut \/ failed
                     /\ ~(resolved /\ timedOut) /\ ~(resolved /\ failed)
                     /\ ~(timedOut /\ failed))
    /\ [][\A i \in WaitCalls : Finished(i) => inv'[i] = inv[i]]_vars
    /\ (inv[1].pc \in {"body", "captcha", "verify", "sleep"}) ~> Finished(1)

\* The page went back and forth between a challenge and none while the call
\* slept late: the call has ended with the timeout, more than 120 s after
\* it began, on a page that shows no challenge.
WaitTerminatesWitness ==
    /\ inv[1].pc = "threw" /\ inv[1].out[1].err = CaptchaTimedOut
    /\ now - inv[1].start > WaitBudget
    /\ inv[1].polls < MostPolls
    /\ doc.dom = {} /\ doc.url = Site

\* C30: in wait_for_human a detection query that rejects leaves its flag
\* false; an iteration whose two queries both rejected, on a URL without
\* "sorry", goes to the screenshot at once, without sleeping or polling
\* again, whatever the page shows; and from there the call returns with the
\* screenshot or ends with the error the screenshot rejected with.
ProbeFailureIsNoChallenge ==
    [][\A i \in WaitCalls :
         /\ (inv[i].pc = "captcha" /\ inv'[i].pc = "verify"
               /\ "captcha" \in inv'[i].faults) => ~inv'[i].hasCaptcha
         /\ (inv[i].pc = "verify" /\ inv'[i].pc # "verify") =>
               /\ "verify" \in inv'[i].faults => ~inv'[i].hasVerifyText
               /\ (inv'[i].faults = {"captcha", "verify"}
                     /\ ~Includes(inv[i].url, Sorry)) =>
                       /\ inv'[i].pc = "shot"
                       /\ inv'[i].sleeps = inv[i].sleeps
                       /\ inv'[i].polls = inv[i].polls
                       /\ now' = now
         /\ (inv[i].pc = "shot" /\ inv'[i].pc # "shot") =>
               \/ /\ inv'[i].pc = "returned"
                  /\ inv'[i].out[1].shots = <<ScreenshotRef("human_done", now)>>
                  /\ inv'[i].out[1].result.screenshot = ScreenshotRef("human_done", now)
               \/ /\ inv'[i].pc = "threw"
                  /\ inv'[i].out[1].err \in DriverErrors
                  /\ inv'[i].out[1].shots = <<>>]_vars

\* The page shows a reCAPTCHA frame and a challenge phrase, both queries of
\* the first iteration rejected, and the call has returned success without
\* having slept.
ProbeFailureIsNoChallengeWitness ==
    /\ inv[1].pc = "returned" /\ inv[1].out[1].result.success
    /\ inv[1].faults = {"captcha", "verify"}
    /\ doc.dom = {CaptchaFrames, VerifyTexts} /\ doc.url = Site
    /\ inv[1].polls = 1 /\ inv[1].sleeps = 0

=============================================================================
